---- MODULE Spec2Model ----
(***************************************************************************)
(* DomKit v1.1.0: the state store returned by createState                  *)
(* (src/unnamed/part_001, lines 703-755; identical in v1.0.0,              *)
(* src/unnamed/part_000, lines 430-482).                                   *)
(*                                                                         *)
(* JavaScript is single threaded: a top-level call, an animation frame and *)
(* every listener invocation run to completion.  The model follows the     *)
(* control position with pc: "idle" (between tasks), "frame" (the browser  *)
(* is running the requestAnimationFrame callbacks of one frame),           *)
(* "forEach" (inside listeners.forEach) and "listener" (inside one         *)
(* listener function, which may itself call the store).                    *)
(***************************************************************************)
EXTENDS Integers, Sequences, FiniteSets, TLC

\* ------------------------------------------------------------------ bounds
\* Number of distinct listener functions the callers own.
MaxListeners == 2
\* Number of batched setState calls made in one run.
MaxCalls == 3
\* Number of operations the listeners perform during one forEach pass.
MaxOps == 2
\* Longest list of text children in the rendered trees.
MaxChildren == 3
\* Render calls that may be suspended at the same time.
MaxPending == 2
\* Mutations of the mounted surface by other code in one run.
MaxExternal == 2
\* Script fetches the component loader starts in one run.
MaxFetches == 2
\* Longest child list of the target that inject and updateInjected fill.
MaxInjected == 3

\* ------------------------------------------------------------------ values
Listeners == 1..MaxListeners
CallIds == 1..MaxCalls

\* Property names: two ordinary keys and the index key of a one-character string.
Keys == {"a", "b", "0"}
IndexKey == <<"0">>

\* A JavaScript object is a function from its own enumerable keys to values.
EmptyObj == [key \in {} |-> 0]

\* The arguments callers pass to setState: objects, and the non-objects
\* null, a number and a one-character string (characters are written as
\* their code unit).
ObjectPartials ==
    { [kind |-> "object", props |-> [key \in {"a"} |-> 1]],
      [kind |-> "object", props |-> [key \in {"b"} |-> 2]],
      [kind |-> "object", props |-> [key \in {"a"} |-> 3]] }
NonObjectPartials ==
    { [kind |-> "null"],
      [kind |-> "number", num |-> 5],
      [kind |-> "string", chars |-> <<120>>] }
Partials == ObjectPartials \cup NonObjectPartials

\* typeof: null is reported as "object".
TypeOf(v) == IF v.kind \in {"object", "null"} THEN "object" ELSE v.kind

\* The own enumerable properties that object spread and Object.assign copy
\* from a source: null and numbers have none, a string has one per index.
OwnProps(v) ==
    IF v.kind = "object" THEN v.props
    ELSE IF v.kind = "string"
         THEN [key \in {IndexKey[i] : i \in 1..Len(v.chars)} |->
                 v.chars[CHOOSE i \in 1..Len(v.chars) : IndexKey[i] = key]]
         ELSE EmptyObj

\* { ...o, ...p } for two objects: the keys of p win.
SpreadLaterWins(o, p) ==
    [key \in DOMAIN o \cup DOMAIN p |-> IF key \in DOMAIN p THEN p[key] ELSE o[key]]
SpreadEarlierWins(o, p) ==
    [key \in DOMAIN o \cup DOMAIN p |-> IF key \in DOMAIN o THEN o[key] ELSE p[key]]
Spread(o, p) == SpreadLaterWins(o, p)

\* Object.assign({}, ...queue): the sources are copied into the target in
\* argument order.
RECURSIVE AssignFrom(_, _, _)
AssignFrom(target, queue, i) ==
    IF i > Len(queue) THEN target
    ELSE AssignFrom(Spread(target, OwnProps(queue[i])), queue, i + 1)
AssignAll(queue) == AssignFrom(EmptyObj, queue, 1)

\* ------------------------------------------------------------------ heap
\* Object identity matters (a snapshot may or may not be the internal state
\* object), so objects live at addresses.  Addresses no live reference
\* holds are reset, which is garbage collection.
Addr == <<"o1", "o2", "o3", "o4">>
ObjIds == {Addr[i] : i \in 1..Len(Addr)}
NoRef == "none"

VARIABLES
    heap,         \* the objects: address -> object
    state,        \* `let state`: address of the internal state object
    updateQueue,  \* `let updateQueue`: the partials waiting for the flush
    listeners,    \* `const listeners`: the subscribed functions, in order
    rafQueue,     \* processQueue callbacks registered for the next frame
    frameLeft,    \* callbacks of the running frame not yet run
    pc,           \* control position
    mode,         \* which function runs the forEach: "flush" or "immediate"
    k,            \* forEach: index of the next position (1-based)
    len,          \* forEach: the length read when the loop began
    cur,          \* the listener being run
    arg,          \* the object handed to the running listener
    opsLeft,      \* operations the listeners of the running pass may still perform
    snap,         \* the object the last getState call returned
    \* history variables (observers, not program state)
    queueIds,     \* the call number of each queued partial
    calls,        \* batched setState calls made so far
    applied,      \* call number -> times its partial was merged into state
    notified,     \* listener -> flush notifications of its subscription in the current tick
    subCall,      \* a listener called the store during the current tick
    tickSize,     \* partials pending when the current tick began
    passStart,    \* the listener list when the running forEach began
    invoked,      \* the listeners the running forEach has invoked, in order
    gone,         \* listeners removed during the pass before their turn
    added         \* listeners another listener subscribed during the pass, still subscribed

progVars == <<heap, state, updateQueue, listeners, rafQueue, frameLeft,
              pc, mode, k, len, cur, arg, opsLeft, snap>>
histVars == <<queueIds, calls, applied, notified, subCall, tickSize,
              passStart, invoked, gone, added>>
\* The renderer's state: one mount point (the container), the component
\* loader, and the render calls in progress.
VARIABLES
    componentCache,     \* `componentCache`: name -> resolved component
    componentRegistry,  \* `componentRegistry`: name -> path of its script
    loadingComponents,  \* `loadingComponents`: name -> promise of the fetch
    scripts,            \* script elements appended to the head, not yet settled
    exports,            \* window.__domkitComponents: name -> exported component
    promises,           \* the promises loadComponent created: their state
    target,             \* childNodes of the element inject works on
    injected,           \* target._injected
    host,               \* container.childNodes: the host surface
    vdom,               \* container._vdom: the committed tree
    extMod,             \* container._externallyModified
    observer,           \* container._observer is installed
    records,            \* mutation records queued for the observer's callback
    pending,            \* render calls suspended at their await
    rpc,                \* control position of the running render pass
    curCall,            \* the tree the running pass renders
    passKind,           \* the branch the pass took: "mount" or "update"
    \* history variables (observers, not program state)
    ops,                \* the host operations of the running or last pass
    thrown,             \* the last pass ended with an exception
    before,             \* the host surface and the committed tree when the pass began
    externals,          \* mutations of the surface made by other code so far
    anyThrown,          \* some pass so far ended with an exception
    dirty,              \* other code mutated the surface since the last pass began
    lastLoad,           \* the last loadComponent call: what it found and returned
    rewritten,          \* a script wrote the cache entry of a name already cached
    lastCall,           \* the last call with a target: operation, target, outcome
    compared            \* the last isNodeChanged call made by updateInjected

loaderVars == <<componentCache, componentRegistry, loadingComponents, scripts,
                exports, promises, lastLoad, rewritten>>
surfaceVars == <<host, vdom, extMod, observer, records, pending, rpc, curCall,
                 passKind, ops, thrown, before, externals, anyThrown, dirty>>
injectVars == <<target, injected, lastCall, compared>>
renderVars == <<loaderVars, surfaceVars, injectVars>>
storeVars == <<progVars, histVars>>
vars == <<progVars, histVars, renderVars>>

\* An absent node: null or undefined.
Null == [type |-> "null"]

\* A Map with no entry, and the value of an absent entry.
EmptyMap == [n \in {} |-> 0]
None == [kind |-> "none"]

\* The loader as the module creates it: nothing registered, nothing loaded.
LoaderIdle ==
    /\ componentCache = EmptyMap
    /\ componentRegistry = EmptyMap
    /\ loadingComponents = EmptyMap
    /\ scripts = {}
    /\ exports = EmptyMap
    /\ promises = <<>>
    /\ lastLoad = None
    /\ rewritten = FALSE

\* target._injected: undefined, or the list of the injected trees.
NotTracked == [defined |-> FALSE, list |-> <<>>]
Tracked(list) == [defined |-> TRUE, list |-> list]

\* An element nothing was injected into.
InjectIdle ==
    /\ target = <<>>
    /\ injected = NotTracked
    /\ lastCall = None
    /\ compared = None

\* A container no render call was made on.
SurfaceIdle ==
    /\ host = <<>>
    /\ vdom = Null
    /\ extMod = FALSE
    /\ observer = FALSE
    /\ records = FALSE
    /\ pending = <<>>
    /\ rpc = "idle"
    /\ curCall = [vnode |-> Null, suspended |-> FALSE]
    /\ passKind = "none"
    /\ ops = <<>>
    /\ thrown = FALSE
    /\ before = [host |-> <<>>, vdom |-> Null]
    /\ externals = 0
    /\ anyThrown = FALSE
    /\ dirty = FALSE

\* Before the first call.
RenderIdle == LoaderIdle /\ SurfaceIdle /\ InjectIdle

Range(s) == {s[i] : i \in 1..Len(s)}

\* The first free address.
Alloc(live) ==
    Addr[CHOOSE i \in 1..Len(Addr) :
            /\ Addr[i] \notin live
            /\ \A j \in 1..(i - 1) : Addr[j] \in live]

Collect(h, live) == [o \in ObjIds |-> IF o \in live THEN h[o] ELSE EmptyObj]

\* Array.prototype.indexOf, 1-based, 0 when absent.
IndexOf(s, x) ==
    IF x \in Range(s) THEN CHOOSE i \in 1..Len(s) : s[i] = x /\ \A j \in 1..(i - 1) : s[j] # x
    ELSE 0

\* Array.prototype.splice(index, 1).
Splice(s, i) == SubSeq(s, 1, i - 1) \o SubSeq(s, i + 1, Len(s))

\* createState(initialState): every caller of the repository passes an
\* object literal; the store copies it.
InitialStates == {EmptyObj, [key \in {"a"} |-> 1]}

Init ==
    /\ \E init \in InitialStates :
          heap = [o \in ObjIds |-> IF o = Addr[1] THEN init ELSE EmptyObj]
    /\ state = Addr[1]
    /\ updateQueue = <<>>
    /\ listeners = <<>>
    /\ rafQueue = 0
    /\ frameLeft = 0
    /\ pc = "idle"
    /\ mode = "flush"
    /\ k = 1
    /\ len = 0
    /\ cur = 0
    /\ arg = NoRef
    /\ opsLeft = 0
    /\ snap = NoRef
    /\ queueIds = <<>>
    /\ calls = 0
    /\ applied = [c \in CallIds |-> 0]
    /\ notified = [l \in Listeners |-> 0]
    /\ subCall = FALSE
    /\ tickSize = 0
    /\ passStart = <<>>
    /\ invoked = <<>>
    /\ gone = {}
    /\ added = {}
    /\ RenderIdle

\* ------------------------------------------------------- who may call
\* A store operation is called either from a top-level task or from the
\* running listener.
CanCall == pc = "idle" \/ (pc = "listener" /\ opsLeft > 0)
Called ==
    /\ opsLeft' = IF pc = "listener" THEN opsLeft - 1 ELSE opsLeft
    /\ subCall' = (subCall \/ pc = "listener")
    /\ UNCHANGED <<pc, mode, k, len, cur, arg, frameLeft>>

\* ------------------------------------------------------- the scheduler
\* A frame begins: the browser takes the callbacks registered so far and
\* runs them one after the other; callbacks registered while the frame
\* runs wait for the next frame.
Tick ==
    /\ UNCHANGED renderVars
    /\ pc = "idle"
    /\ rafQueue > 0
    /\ frameLeft' = rafQueue
    /\ rafQueue' = 0
    /\ pc' = "frame"
    /\ notified' = [l \in Listeners |-> 0]
    /\ subCall' = FALSE
    /\ tickSize' = Len(updateQueue)
    /\ UNCHANGED <<heap, state, updateQueue, listeners, mode, k, len, cur, arg,
                   opsLeft, snap, queueIds, calls, applied, passStart, invoked,
                   gone, added>>

\* The frame has run its last callback.
EndFrame ==
    /\ UNCHANGED renderVars
    /\ pc = "frame"
    /\ frameLeft = 0
    /\ pc' = "idle"
    /\ notified' = [l \in Listeners |-> 0]
    /\ subCall' = FALSE
    /\ tickSize' = 0
    /\ UNCHANGED <<heap, state, updateQueue, listeners, rafQueue, frameLeft, mode,
                   k, len, cur, arg, opsLeft, snap, queueIds, calls, applied,
                   passStart, invoked, gone, added>>

\* listeners.forEach(...) begins: the length is read once.
BeginForEach(who) ==
    /\ pc' = "forEach"
    /\ mode' = who
    /\ k' = 1
    /\ len' = Len(listeners)
    /\ opsLeft' = MaxOps
    /\ passStart' = listeners
    /\ invoked' = <<>>
    /\ gone' = {}
    /\ added' = {}

\* ------------------------------------------------------- processQueue
\* state = { ...state, ...Object.assign({}, ...updateQueue) }
MergedQueue(obj, queue) == Spread(obj, AssignAll(queue))

processQueueKeepsQueue ==
    /\ UNCHANGED renderVars
    /\ pc = "frame"
    /\ frameLeft > 0
    /\ frameLeft' = frameLeft - 1
    /\ IF Len(updateQueue) > 0
       THEN LET fresh == Alloc({state, snap})
            IN /\ heap' = Collect([heap EXCEPT ![fresh] = MergedQueue(heap[state], updateQueue)],
                                  {fresh, snap})
               /\ state' = fresh
               /\ applied' = [c \in CallIds |->
                                IF c \in Range(queueIds) THEN applied[c] + 1 ELSE applied[c]]
               /\ BeginForEach("flush")
               /\ UNCHANGED <<updateQueue, queueIds>>
       ELSE UNCHANGED <<heap, state, updateQueue, queueIds, applied, pc, mode, k, len,
                        opsLeft, passStart, invoked, gone, added>>
    /\ UNCHANGED <<listeners, rafQueue, cur, arg, snap, calls, notified, subCall,
                   tickSize>>
processQueue ==
    /\ UNCHANGED renderVars
    /\ pc = "frame"
    /\ frameLeft > 0
    /\ frameLeft' = frameLeft - 1
    /\ IF Len(updateQueue) > 0
       THEN LET fresh == Alloc({state, snap})
            IN /\ heap' = Collect([heap EXCEPT ![fresh] = MergedQueue(heap[state], updateQueue)],
                                  {fresh, snap})
               /\ state' = fresh
               /\ updateQueue' = <<>>
               /\ queueIds' = <<>>
               /\ applied' = [c \in CallIds |->
                                IF c \in Range(queueIds) THEN applied[c] + 1 ELSE applied[c]]
               /\ BeginForEach("flush")
       ELSE UNCHANGED <<heap, state, updateQueue, queueIds, applied, pc, mode, k, len,
                        opsLeft, passStart, invoked, gone, added>>
    /\ UNCHANGED <<listeners, rafQueue, cur, arg, snap, calls, notified, subCall,
                   tickSize>>

\* ------------------------------------------------------- forEach
\* Array.prototype.forEach visits the indices below the length read at the
\* start and calls the callback for those the array still has.
ForEachInvoke ==
    /\ UNCHANGED renderVars
    /\ pc = "forEach"
    /\ k <= len
    /\ k <= Len(listeners)
    /\ pc' = "listener"
    /\ cur' = listeners[k]
    /\ arg' = state
    /\ invoked' = Append(invoked, listeners[k])
    /\ notified' = IF mode = "flush"
                   THEN [notified EXCEPT ![listeners[k]] = @ + 1]
                   ELSE notified
    /\ UNCHANGED <<heap, state, updateQueue, listeners, rafQueue, frameLeft, mode, k,
                   len, opsLeft, snap, queueIds, calls, applied, subCall, tickSize,
                   passStart, gone, added>>

ForEachSkip ==
    /\ UNCHANGED renderVars
    /\ pc = "forEach"
    /\ k <= len
    /\ k > Len(listeners)
    /\ k' = k + 1
    /\ UNCHANGED <<heap, state, updateQueue, listeners, rafQueue, frameLeft, pc, mode,
                   len, cur, arg, opsLeft, snap, histVars>>

ForEachEnd ==
    /\ UNCHANGED renderVars
    /\ pc = "forEach"
    /\ k > len
    /\ pc' = IF mode = "flush" THEN "frame" ELSE "idle"
    /\ mode' = "flush"
    /\ k' = 1
    /\ len' = 0
    /\ opsLeft' = 0
    /\ passStart' = <<>>
    /\ invoked' = <<>>
    /\ gone' = {}
    /\ added' = {}
    /\ UNCHANGED <<heap, state, updateQueue, listeners, rafQueue, frameLeft, cur, arg,
                   snap, queueIds, calls, applied, notified, subCall, tickSize>>

\* The running listener returns.
ListenerReturn ==
    /\ UNCHANGED renderVars
    /\ pc = "listener"
    /\ pc' = "forEach"
    /\ k' = k + 1
    /\ cur' = 0
    /\ arg' = NoRef
    /\ heap' = Collect(heap, {state, snap})
    /\ UNCHANGED <<state, updateQueue, listeners, rafQueue, frameLeft, mode, len,
                   opsLeft, snap, histVars>>

\* ------------------------------------------------------- the store's API
\* setState of the returned object: updateQueue.push(newState);
\* requestAnimationFrame(processQueue).
debouncedSetStateEager(newState) ==
    /\ UNCHANGED renderVars
    /\ CanCall
    /\ calls < MaxCalls
    /\ heap' = [heap EXCEPT ![state] = Spread(heap[state], OwnProps(newState))]
    /\ updateQueue' = Append(updateQueue, newState)
    /\ rafQueue' = rafQueue + 1
    /\ queueIds' = Append(queueIds, calls + 1)
    /\ calls' = calls + 1
    /\ Called
    /\ UNCHANGED <<state, listeners, snap, applied, notified, tickSize,
                   passStart, invoked, gone, added>>
debouncedSetState(newState) ==
    /\ UNCHANGED renderVars
    /\ CanCall
    /\ calls < MaxCalls
    /\ updateQueue' = Append(updateQueue, newState)
    /\ rafQueue' = rafQueue + 1
    /\ queueIds' = Append(queueIds, calls + 1)
    /\ calls' = calls + 1
    /\ Called
    /\ UNCHANGED <<heap, state, listeners, snap, applied, notified, tickSize,
                   passStart, invoked, gone, added>>

\* getState: ({ ...state }), a new object.
GetStateValue == Spread(EmptyObj, heap[state])

getStateByReference ==
    /\ UNCHANGED renderVars
    /\ CanCall
    /\ snap' = state
    /\ heap' = Collect(heap, {state, arg})
    /\ Called
    /\ UNCHANGED <<state, updateQueue, listeners, rafQueue, queueIds, calls, applied,
                   notified, tickSize, passStart, invoked, gone, added>>
getState ==
    /\ UNCHANGED renderVars
    /\ CanCall
    /\ LET fresh == Alloc({state, arg, snap})
       IN /\ snap' = fresh
          /\ heap' = Collect([heap EXCEPT ![fresh] = GetStateValue],
                             {state, arg, fresh})
    /\ Called
    /\ UNCHANGED <<state, updateQueue, listeners, rafQueue, queueIds, calls, applied,
                   notified, tickSize, passStart, invoked, gone, added>>

\* The setState defined inside createState (it is not part of the returned
\* object): validates, merges and notifies within the call.
setState(newState) ==
    /\ UNCHANGED renderVars
    /\ pc = "idle"
    /\ IF TypeOf(newState) # "object" \/ newState.kind = "null"
       THEN UNCHANGED <<heap, state, pc, mode, k, len, opsLeft, passStart, invoked, gone,
                        added>>
       ELSE LET fresh == Alloc({state, snap})
            IN /\ heap' = Collect([heap EXCEPT ![fresh] =
                                       Spread(heap[state], OwnProps(newState))],
                                  {fresh, snap})
               /\ state' = fresh
               /\ BeginForEach("immediate")
    /\ UNCHANGED <<updateQueue, listeners, rafQueue, frameLeft, cur, arg, snap,
                   queueIds, calls, applied, notified, subCall, tickSize>>

\* subscribe(listener): listeners.push(listener).  Each call passes a
\* function that is not subscribed at that moment.
subscribe(listener) ==
    /\ UNCHANGED renderVars
    /\ CanCall
    /\ listener \notin Range(listeners)
    /\ listeners' = Append(listeners, listener)
    /\ added' = IF pc = "listener" /\ cur # listener THEN added \cup {listener} ELSE added
    /\ Called
    /\ UNCHANGED <<heap, state, updateQueue, rafQueue, snap, queueIds, calls, applied,
                   notified, tickSize, passStart, invoked, gone>>

\* The function subscribe returned: indexOf, then splice when found.
unsubscribe(listener) ==
    /\ UNCHANGED renderVars
    /\ CanCall
    /\ LET index == IndexOf(listeners, listener)
       IN IF index > 0
          THEN /\ listeners' = Splice(listeners, index)
               /\ added' = added \ {listener}
               /\ gone' = IF pc = "listener" /\ listener \notin Range(invoked)
                          THEN gone \cup {listener} ELSE gone
               /\ notified' = [notified EXCEPT ![listener] = 0]
          ELSE UNCHANGED <<listeners, added, gone, notified>>
    /\ Called
    /\ UNCHANGED <<heap, state, updateQueue, rafQueue, snap, queueIds, calls, applied,
                   tickSize, passStart, invoked>>

\* cleanup: listeners.length = 0.
cleanup ==
    /\ UNCHANGED renderVars
    /\ CanCall
    /\ listeners' = <<>>
    /\ added' = {}
    /\ gone' = IF pc = "listener"
               THEN gone \cup (Range(listeners) \ Range(invoked))
               ELSE gone
    /\ notified' = [l \in Listeners |-> 0]
    /\ Called
    /\ UNCHANGED <<heap, state, updateQueue, rafQueue, snap, queueIds, calls, applied,
                   tickSize, passStart, invoked>>

\* ------------------------------------------------------- callers' writes
\* What a caller does to an object it holds: add or change a top-level
\* key, or delete one.
Mutations ==
    { [op |-> "set", key |-> "b", val |-> 1],
      [op |-> "delete", key |-> "a"] }
Mutate(obj, m) ==
    IF m.op = "set"
    THEN [key \in DOMAIN obj \cup {m.key} |-> IF key = m.key THEN m.val ELSE obj[key]]
    ELSE [key \in DOMAIN obj \ {m.key} |-> obj[key]]

\* A caller writes to the snapshot getState gave it.
MutateSnapshot(m) ==
    /\ UNCHANGED renderVars
    /\ CanCall
    /\ snap # NoRef
    /\ heap' = [heap EXCEPT ![snap] = Mutate(heap[snap], m)]
    /\ opsLeft' = IF pc = "listener" THEN opsLeft - 1 ELSE opsLeft
    /\ UNCHANGED <<state, updateQueue, listeners, rafQueue, frameLeft, pc, mode, k, len,
                   cur, arg, snap, histVars>>

\* The running listener writes to the object it was called with.
MutateArg(m) ==
    /\ UNCHANGED renderVars
    /\ pc = "listener"
    /\ opsLeft > 0
    /\ heap' = [heap EXCEPT ![arg] = Mutate(heap[arg], m)]
    /\ opsLeft' = opsLeft - 1
    /\ UNCHANGED <<state, updateQueue, listeners, rafQueue, frameLeft, pc, mode, k, len,
                   cur, arg, snap, histVars>>

\* ------------------------------------------------------- specifications
\* The program steps: what runs to completion once a task has started.
Run ==
    \/ EndFrame
    \/ processQueue
    \/ ForEachInvoke
    \/ ForEachSkip
    \/ ForEachEnd
    \/ ListenerReturn

\* The store as its callers can use it: the returned object's setState
\* (debouncedSetState), subscribe, the unsubscribe functions and cleanup,
\* called from top-level tasks and from listeners, and the browser's frames.
Next ==
    \/ Tick
    \/ Run
    \/ \E p \in ObjectPartials : debouncedSetState(p)
    \/ \E p \in NonObjectPartials : debouncedSetState(p)
    \/ \E l \in Listeners : subscribe(l)
    \/ \E l \in Listeners : unsubscribe(l)
    \/ cleanup

Spec == Init /\ [][Next]_vars

\* The same store with the inner setState callable from a top-level task.
NextInternal ==
    \/ Next
    \/ \E p \in Partials : setState(p)

SpecInternal == Init /\ [][NextInternal]_vars

\* The store with callers that read snapshots and write to the objects
\* they hold.
NextSnapshots ==
    \/ Tick
    \/ EndFrame
    \/ processQueue
    \/ ForEachInvoke
    \/ ForEachEnd
    \/ ListenerReturn
    \/ \E p \in ObjectPartials : debouncedSetState(p)
    \/ \E l \in Listeners : subscribe(l)
    \/ getState
    \/ \E m \in Mutations : MutateSnapshot(m)
    \/ \E m \in Mutations : MutateArg(m)

SpecSnapshots == Init /\ [][NextSnapshots]_vars

\* The fair store: the browser runs a frame whenever callbacks are
\* registered, and a task that has started runs to completion.
\* Whether a queued partial gets applied does not depend on its value, so
\* the callers of the fair store pass one object and one non-object.
FairPartials ==
    { [kind |-> "object", props |-> [key \in {"a"} |-> 3]],
      [kind |-> "null"] }
NextFair ==
    \/ Tick
    \/ Run
    \/ \E p \in FairPartials : debouncedSetState(p)
    \/ \E l \in Listeners : subscribe(l)
    \/ \E l \in Listeners : unsubscribe(l)
    \/ cleanup

SpecFair == Init /\ [][NextFair]_vars /\ WF_vars(Tick) /\ WF_vars(Run)

\* ------------------------------------------------------- properties
\* The steps and states the properties speak about.
FlushStep == pc = "frame" /\ frameLeft > 0 /\ Len(updateQueue) > 0 /\ pc' = "forEach"
TickEnds == pc = "frame" /\ frameLeft = 0 /\ pc' = "idle"
PassDone(who) == pc = "forEach" /\ mode = who /\ k > len
BatchedCallStep == calls' = calls + 1
Count(l, s) == Cardinality({i \in 1..Len(s) : s[i] = l})

\* The previous state merged left to right with the partials, later keys
\* winning.
RECURSIVE MergeLeft(_, _)
MergeLeft(obj, partials) ==
    IF partials = <<>> THEN obj
    ELSE SpreadLaterWins(MergeLeft(obj, SubSeq(partials, 1, Len(partials) - 1)),
                         OwnProps(partials[Len(partials)]))

\* C1: the flush of a tick that began with n >= 1 queued partials installs
\* the previous state merged left to right with them (later keys win), and
\* when no subscriber called the store during the tick, every subscriber
\* has been notified exactly once when the tick ends.
C1_Coalesced ==
    [][ /\ FlushStep => heap'[state'] = MergeLeft(heap[state], updateQueue)
        /\ (TickEnds /\ tickSize >= 1 /\ ~subCall)
              => \A l \in Range(listeners) : notified[l] = 1 ]_vars

C1_Witness ==
    /\ pc = "frame" /\ frameLeft = 0
    /\ tickSize = 3
    /\ ~subCall
    /\ Len(listeners) = 2
    /\ \A l \in Range(listeners) : notified[l] = 1
    /\ heap[state] = [key \in {"a", "b"} |-> IF key = "a" THEN 3 ELSE 2]

\* C2: in every tick, each subscriber is notified at most once by batched
\* updates, whatever the callers and the subscribers do.
C2_AtMostOncePerTick == \A l \in Listeners : notified[l] <= 1

\* C3: at any time at most one flush callback is scheduled for the store.
C3_OneFlushScheduled == rafQueue <= 1

\* C4: a batched setState call leaves the value getState returns
\* unchanged, and the flush makes every queued partial visible in one
\* step: each key of each queued partial is in the new state, with the
\* value of the last partial that has it.
C4_Deferred ==
    [][ /\ BatchedCallStep => GetStateValue' = GetStateValue
        /\ FlushStep =>
              \A i \in 1..Len(updateQueue) :
                 \A key \in DOMAIN OwnProps(updateQueue[i]) :
                    /\ key \in DOMAIN GetStateValue'
                    /\ (\A j \in (i + 1)..Len(updateQueue) :
                           key \notin DOMAIN OwnProps(updateQueue[j]))
                          => GetStateValue'[key] = OwnProps(updateQueue[i])[key] ]_vars

C4_Witness ==
    /\ pc = "idle"
    /\ Len(updateQueue) = 2
    /\ updateQueue[1] = [kind |-> "object", props |-> [key \in {"b"} |-> 2]]
    /\ "b" \notin DOMAIN GetStateValue

\* C5 as stated: under fair ticks every enqueued partial is eventually
\* applied, none is applied twice, and when a flush has finished the
\* pending queue is empty.
EventuallyApplied == \A c \in CallIds : (c \in Range(queueIds)) ~> (applied[c] = 1)
C5_Original ==
    /\ EventuallyApplied
    /\ [](\A c \in CallIds : applied[c] <= 1)
    /\ [](PassDone("flush") => updateQueue = <<>>)

\* C5 amended: under fair ticks every enqueued partial is eventually
\* applied, exactly once; the flush empties the queue before it notifies,
\* so when a flush has finished the queue holds only partials that
\* subscribers enqueued during it (none when no subscriber called the store).
C5_Amended ==
    /\ EventuallyApplied
    /\ [](\A c \in CallIds :
            /\ applied[c] <= 1
            /\ c <= calls => ((c \in Range(queueIds)) # (applied[c] = 1)))
    /\ [][FlushStep => updateQueue' = <<>>]_vars
    /\ [](PassDone("flush") /\ ~subCall => updateQueue = <<>>)

C5_Witness ==
    /\ PassDone("flush")
    /\ calls = 3
    /\ applied[1] = 1 /\ applied[2] = 1 /\ applied[3] = 0
    /\ queueIds = <<3>>

\* C6: when a flush has finished, every listener that was subscribed when
\* it began and was not unsubscribed before its turn has been invoked
\* exactly once, and the invocations followed subscription order.
InSubscriptionOrder ==
    \A i, j \in 1..Len(invoked) :
        (i < j /\ invoked[i] \in Range(passStart) /\ invoked[j] \in Range(passStart))
            => IndexOf(passStart, invoked[i]) < IndexOf(passStart, invoked[j])
EveryListenerOnce ==
    /\ \A l \in Range(passStart) \ gone : Count(l, invoked) = 1
    /\ InSubscriptionOrder
C6_EveryListenerOnce == PassDone("flush") => EveryListenerOnce

\* C7: a flush never invokes a listener that another listener subscribed
\* while that flush was running.
C7_AddedNotInvoked ==
    [][(pc = "forEach" /\ mode = "flush" /\ pc' = "listener") => cur' \notin added]_vars

\* C8: getState returns a new object holding a copy of the state, and a
\* write to a returned snapshot never changes what getState returns.
C8_FreshCopy ==
    [][ /\ snap' # snap => (snap' \notin {state', arg'} /\ heap'[snap'] = heap[state])
        /\ (snap # NoRef /\ snap' = snap /\ heap'[snap] # heap[snap])
              => GetStateValue' = GetStateValue ]_vars

C8_Witness ==
    /\ snap # NoRef
    /\ "b" \in DOMAIN heap[snap] /\ heap[snap]["b"] = 1
    /\ "a" \notin DOMAIN heap[snap]
    /\ "a" \in DOMAIN heap[state]
    /\ "b" \notin DOMAIN heap[state]

\* C9: an update that is not an object, made through the returned
\* object's setState, is rejected: a flush whose queue holds only such
\* updates leaves the state unchanged and notifies no subscriber.
C9_NonObjectRejected ==
    [][(FlushStep /\ \A i \in 1..Len(updateQueue) : updateQueue[i] \in NonObjectPartials)
          => (GetStateValue' = GetStateValue /\ len' = 0)]_vars

\* C10: the inner setState merges its argument into the state and starts
\* the notification within the call, leaves the pending queue and the
\* scheduled flushes as they are, and when the call returns every
\* subscriber has been notified exactly once.
ImmediateStep == pc = "idle" /\ pc' = "forEach" /\ mode' = "immediate"
C10_ImmediateIsolated ==
    [][ /\ ImmediateStep =>
              /\ \E p \in ObjectPartials :
                    heap'[state'] = SpreadLaterWins(heap[state], p.props)
              /\ len' = Len(listeners)
              /\ updateQueue' = updateQueue
              /\ rafQueue' = rafQueue
        /\ (PassDone("immediate") /\ pc' = "idle") => EveryListenerOnce ]_vars

\* ======================================================= the renderer
\* ------------------------------------------------------- prop values
\* A prop value is a string, a number, a boolean, a function (an event
\* handler or a ref callback), a style object or undefined (the prop is
\* absent).
Undefined == [kind |-> "undefined"]
Str(s) == [kind |-> "str", s |-> s]
Num(n) == [kind |-> "num", n |-> n]
Bool(b) == [kind |-> "bool", b |-> b]
Fn(f) == [kind |-> "fn", f |-> f]
StyleObj(st) == [kind |-> "style", st |-> st]

\* JavaScript truthiness: `!value` is ~Truthy(value).
Truthy(v) ==
    CASE v.kind = "undefined" -> FALSE
      [] v.kind = "str" -> v.s # ""
      [] v.kind = "num" -> v.n # 0
      [] v.kind = "bool" -> v.b
      [] OTHER -> TRUE

\* String(value), as setAttribute and the style setters convert their argument.
Digits == <<"1", "2", "3">>
StringOf(v) ==
    CASE v.kind = "str" -> v.s
      [] v.kind = "num" -> (IF v.n = 0 THEN "0" ELSE Digits[v.n])
      [] v.kind = "bool" -> (IF v.b THEN "true" ELSE "false")
      [] OTHER -> v.kind

\* a === b.  Each render builds its tree with h and object literals, so a
\* style object of one tree is never the same object as one of another
\* tree; a handler is the same function when it has the same name.
StrictEq(a, b) ==
    /\ a.kind = b.kind
    /\ CASE a.kind = "undefined" -> TRUE
         [] a.kind = "str" -> a.s = b.s
         [] a.kind = "num" -> a.n = b.n
         [] a.kind = "bool" -> a.b = b.b
         [] a.kind = "fn" -> a.f = b.f
         [] OTHER -> FALSE

\* props[name]
Prop(props, name) == IF name \in DOMAIN props THEN props[name] ELSE Undefined
\* style[prop]
StyleValue(st, prop) == IF prop \in DOMAIN st THEN st[prop] ELSE Undefined

\* Object.keys(props) lists the names in insertion order; the trees write
\* their props, and their style properties, in this order.
PropOrder == <<"key", "id", "ref", "title", "disabled", "className", "data-component-name",
              "style", "onClick", "onInput">>
StyleOrder == <<"color", "fontSize", "opacity">>
ObjectKeys(obj, order) == SelectSeq(order, LAMBDA n : n \in DOMAIN obj)

\* name.startsWith("on") and name.substring(2).toLowerCase()
StartsWithOn(name) == name \in {"onClick", "onInput"}
EventName(name) ==
    CASE name = "onClick" -> "click"
      [] name = "onInput" -> "input"
      [] OTHER -> name

\* ------------------------------------------------------- nodes
\* Virtual nodes as h returns them, and host nodes.
Text(value) == [type |-> "text", value |-> value]
\* A text child that is a number: typeof is "number", the host text node
\* shows its digits.
NumberText(n) == [type |-> "text", value |-> StringOf(Num(n)), typeof |-> "number"]
IsNumber(node) == "typeof" \in DOMAIN node
Element(tag, props, children) ==
    [type |-> "element", tag |-> tag, props |-> props, children |-> children]

\* vnode._customRender = () => {...}: the node carries a custom render hook.
WithHook(vnode) ==
    [type |-> "element", tag |-> vnode.tag, props |-> vnode.props,
     children |-> vnode.children, customRender |-> TRUE]
\* newNode && typeof newNode === "object" && newNode._customRender
HasHook(node) == node.type = "element" /\ "customRender" \in DOMAIN node
\* What the hook is called with: the kind of the previous node.
KindOf(node) == IF node.type = "element" THEN node.tag ELSE node.type

HostText(value) == [type |-> "text", value |-> value]
HostElement(tag) ==
    [type |-> "element", tag |-> tag, attrs |-> EmptyObj, style |-> EmptyObj,
     events |-> EmptyObj, bound |-> {}, children |-> <<>>]
\* parent.childNodes[index] beyond the last child
NoNode == [type |-> "undefined"]

\* `!node`: null, undefined, the empty string and the number 0 are falsy.
Absent(node) ==
    \/ node.type = "null"
    \/ node.type = "text" /\ node.value = ""
    \/ node.type = "text" /\ IsNumber(node) /\ node.value = "0"

ChildNodes(parent) == IF parent.type = "element" THEN parent.children ELSE <<>>
ChildAt(parent, index) ==
    IF index < Len(ChildNodes(parent)) THEN ChildNodes(parent)[index + 1] ELSE NoNode

\* One host operation: what was called, on the node at which path below
\* the container, for which attribute, style property or event.
HostOp(op, path, name) == [op |-> op, path |-> path, name |-> name]

RECURSIVE Flatten(_)
Flatten(ss) == IF ss = <<>> THEN <<>> ELSE Head(ss) \o Flatten(Tail(ss))
Max(a, b) == IF a > b THEN a ELSE b

\* ------------------------------------------------------- isNodeChanged
\* node.props?.key
KeyOf(node) == IF node.type = "element" THEN Prop(node.props, "key") ELSE Undefined

\* The first line reads node1.props and node2.props before the null test.
isNodeChangedThrows(node1, node2) == node1.type = "null" \/ node2.type = "null"

\* The mutant of isNodeChanged: it looks at the kinds, the text values and
\* the tags only.
isNodeChangedByTag(node1, node2) ==
    IF node1.type # node2.type THEN TRUE
    ELSE IF node1.type = "text" THEN node1.value # node2.value
    ELSE node1.tag # node2.tag

isNodeChanged(node1, node2) ==
    IF ~StrictEq(KeyOf(node1), KeyOf(node2)) THEN TRUE
    ELSE IF node1.type # node2.type THEN TRUE
    ELSE IF node1.type = "text"
    THEN IsNumber(node1) # IsNumber(node2) \/ node1.value # node2.value
    ELSE IF node1.tag = "" \/ node2.tag = "" THEN TRUE
    ELSE IF node1.tag # node2.tag THEN TRUE
    ELSE IF Cardinality(DOMAIN node1.props) # Cardinality(DOMAIN node2.props) THEN TRUE
    ELSE \E name \in DOMAIN node1.props :
            /\ ~StartsWithOn(name)
            /\ IF /\ name = "style"
                  /\ node1.props[name].kind = "style"
                  /\ Prop(node2.props, name).kind = "style"
               THEN LET s1 == node1.props[name].st
                        s2 == node2.props[name].st
                    IN \/ Cardinality(DOMAIN s1) # Cardinality(DOMAIN s2)
                       \/ \E key \in DOMAIN s1 :
                             ~StrictEq(StyleValue(s1, key), StyleValue(s2, key))
               ELSE ~StrictEq(node1.props[name], Prop(node2.props, name))

\* ------------------------------------------------------- updateProps
\* The test of the last loop: the attribute of an old prop is removed when
\* !newProps[name] && !name.startsWith("on") && name !== "style".
NeverRemoved(newProps, name) == FALSE
IsRemoved(newProps, name) ==
    ~Truthy(Prop(newProps, name)) /\ ~StartsWithOn(name) /\ name # "style"

\* The test of the first loop: the listener of an old event prop is
\* unbound when the prop is gone from the new props or has another value.
NeverOutdated(newProps, oldProps, name) == FALSE
ListenerOutdated(newProps, oldProps, name) ==
    /\ StartsWithOn(name)
    /\ ~Truthy(Prop(newProps, name)) \/ ~StrictEq(oldProps[name], Prop(newProps, name))

\* if (props.ref && typeof props.ref === "function") props.ref(element)
RefCall(props, path) ==
    IF Prop(props, "ref").kind = "fn" THEN <<HostOp("ref", path, "")>> ELSE <<>>

updateProps(element, newProps, oldProps, path) ==
    IF element.type # "element" THEN [node |-> element, ops |-> <<>>]
    ELSE
    LET oldNames == ObjectKeys(oldProps, PropOrder)
        newNames == ObjectKeys(newProps, PropOrder)
        \* first loop: listeners of event props that went away or changed
        Dropped(name) ==
            /\ ListenerOutdated(newProps, oldProps, name)
            /\ EventName(name) \in DOMAIN element.events
        dropped == {EventName(n) : n \in {m \in DOMAIN oldProps : Dropped(m)}}
        events1 == [e \in DOMAIN element.events \ dropped |-> element.events[e]]
        bound1 == element.bound \ {<<e, element.events[e]>> : e \in dropped}
        ops1 == Flatten([i \in 1..Len(oldNames) |->
                    IF Dropped(oldNames[i])
                    THEN <<HostOp("removeEventListener", path, EventName(oldNames[i]))>>
                    ELSE <<>>])
        \* second loop: the new props
        Written(name) ==
            StartsWithOn(name) \/ ~StrictEq(Prop(oldProps, name), newProps[name])
        IsStyle(name) == name = "style" /\ newProps[name].kind = "style"
        onNames == {n \in DOMAIN newProps : StartsWithOn(n)}
        Rebound(name) == EventName(name) \in DOMAIN events1
        events2 == [e \in DOMAIN events1 \cup {EventName(n) : n \in onNames} |->
                      IF \E n \in onNames : EventName(n) = e
                      THEN newProps[CHOOSE n \in onNames : EventName(n) = e].f
                      ELSE events1[e]]
        bound2 == (bound1 \ {<<EventName(n), events1[EventName(n)]>> :
                                n \in {m \in onNames : Rebound(m)}})
                    \cup {<<EventName(n), newProps[n].f>> : n \in onNames}
        AttrName(name) == IF name = "className" THEN "class" ELSE name
        plain == {n \in DOMAIN newProps : Written(n) /\ ~StartsWithOn(n) /\ ~IsStyle(n)}
        attrs2 == [a \in DOMAIN element.attrs \cup {AttrName(n) : n \in plain} |->
                     IF \E n \in plain : AttrName(n) = a
                     THEN StringOf(newProps[CHOOSE n \in plain : AttrName(n) = a])
                     ELSE element.attrs[a]]
        doStyle == "style" \in DOMAIN newProps /\ IsStyle("style")
        newStyle == IF doStyle THEN newProps["style"].st ELSE EmptyObj
        oldStyle == IF Prop(oldProps, "style").kind = "style"
                    THEN oldProps["style"].st ELSE EmptyObj
        cleared == {p \in DOMAIN oldStyle : ~Truthy(StyleValue(newStyle, p))}
        assigned == {p \in DOMAIN newStyle :
                        ~StrictEq(StyleValue(oldStyle, p), StyleValue(newStyle, p))}
        style2 == IF ~doStyle THEN element.style
                  ELSE [p \in {q \in (DOMAIN element.style \ cleared) \cup assigned :
                                  q \in assigned => StringOf(newStyle[q]) # ""} |->
                          IF p \in assigned THEN StringOf(newStyle[p])
                          ELSE element.style[p]]
        oldStyleNames == ObjectKeys(oldStyle, StyleOrder)
        newStyleNames == ObjectKeys(newStyle, StyleOrder)
        styleOps ==
            Flatten([i \in 1..Len(oldStyleNames) |->
                        IF oldStyleNames[i] \in cleared
                        THEN <<HostOp("clearStyle", path, oldStyleNames[i])>> ELSE <<>>])
            \o Flatten([i \in 1..Len(newStyleNames) |->
                        IF newStyleNames[i] \in assigned
                        THEN <<HostOp("setStyle", path, newStyleNames[i])>> ELSE <<>>])
        ops2 == Flatten([i \in 1..Len(newNames) |->
                    LET name == newNames[i]
                    IN IF ~Written(name) THEN <<>>
                       ELSE IF StartsWithOn(name)
                       THEN (IF Rebound(name)
                             THEN <<HostOp("removeEventListener", path, EventName(name))>>
                             ELSE <<>>)
                            \o <<HostOp("addEventListener", path, EventName(name))>>
                       ELSE IF IsStyle(name) THEN styleOps
                       ELSE <<HostOp("setAttribute", path, AttrName(name))>>])
        \* third loop: attributes that are no longer present
        removed == {n \in DOMAIN oldProps : IsRemoved(newProps, n)} \cap DOMAIN attrs2
        attrs3 == [a \in DOMAIN attrs2 \ removed |-> attrs2[a]]
        ops3 == Flatten([i \in 1..Len(oldNames) |->
                    IF oldNames[i] \in removed
                    THEN <<HostOp("removeAttribute", path, oldNames[i])>> ELSE <<>>])
    IN [node |-> [element EXCEPT !.attrs = attrs3, !.style = style2,
                                 !.events = events2, !.bound = bound2],
        ops |-> RefCall(newProps, path) \o ops1 \o ops2 \o ops3]

\* ------------------------------------------------------- createDomElement
RECURSIVE createDomElement(_, _)
createDomElement(vnode, path) ==
    IF vnode.type = "null"
    THEN [node |-> HostText(""), ops |-> <<HostOp("createTextNode", path, "")>>]
    ELSE IF vnode.type = "text"
    THEN [node |-> HostText(vnode.value),
          ops |-> <<HostOp("createTextNode", path, vnode.value)>>]
    ELSE LET withProps == updateProps(HostElement(vnode.tag), vnode.props, EmptyObj, path)
             kids == SelectSeq(vnode.children, LAMBDA c : c.type # "null")
             made == [i \in 1..Len(kids) |-> createDomElement(kids[i], Append(path, i - 1))]
         IN [node |-> [withProps.node EXCEPT
                          !.children = [i \in 1..Len(kids) |-> made[i].node]],
             ops |-> <<HostOp("createElement", path, vnode.tag)>>
                     \o withProps.ops
                     \o RefCall(vnode.props, path)
                     \o Flatten([i \in 1..Len(kids) |->
                           Append(made[i].ops,
                                  HostOp("appendChild", Append(path, i - 1), ""))])]

\* ------------------------------------------------------- updateElement
\* The result is the parent as the call left it, the host operations it
\* performed, and whether it ended with an exception: removeChild and
\* replaceChild throw a TypeError when parent.childNodes[index] is
\* undefined, appendChild throws when the parent is a text node.
RECURSIVE updateElement(_, _, _, _, _)
RECURSIVE updateChildren(_, _, _, _, _)

updateElement(parent, newNode, oldNode, index, path) ==
    LET here == Append(path, index)
        child == ChildAt(parent, index)
        Done(p, o, t) == [parent |-> p, ops |-> o, threw |-> t]
        \* postRenderCallback = newNode._customRender(oldNode), and the
        \* call of postRenderCallback
        pre == IF HasHook(newNode)
               THEN <<HostOp("customRender", here, KindOf(oldNode))>> ELSE <<>>
        post == IF HasHook(newNode) THEN <<HostOp("postRender", here, "")>> ELSE <<>>
    IN
    IF parent.type = "undefined" THEN Done(parent, <<>>, FALSE)
    ELSE IF Absent(oldNode)
    THEN LET last == Append(path, Len(ChildNodes(parent)))
             made == createDomElement(newNode, last)
         IN IF parent.type # "element" THEN Done(parent, pre \o made.ops, TRUE)
            ELSE Done([parent EXCEPT !.children = Append(@, made.node)],
                      pre \o Append(made.ops, HostOp("appendChild", last, "")) \o post,
                      FALSE)
    ELSE IF Absent(newNode)
    THEN IF child.type = "undefined" THEN Done(parent, <<>>, TRUE)
         ELSE Done([parent EXCEPT !.children = Splice(@, index + 1)],
                   <<HostOp("removeChild", here, "")>>, FALSE)
    ELSE IF isNodeChanged(newNode, oldNode)
    THEN LET made == createDomElement(newNode, here)
         IN IF child.type = "undefined" THEN Done(parent, pre \o made.ops, TRUE)
            ELSE Done([parent EXCEPT !.children[index + 1] = made.node],
                      pre \o Append(made.ops, HostOp("replaceChild", here, "")) \o post,
                      FALSE)
    ELSE IF newNode.type = "text" THEN Done(parent, <<>>, FALSE)
    ELSE LET synced == updateProps(child, newNode.props, oldNode.props, here)
             kids == updateChildren(synced.node, newNode.children, oldNode.children,
                                    0, here)
         IN Done(IF child.type = "undefined" THEN parent
                 ELSE [parent EXCEPT !.children[index + 1] = kids.parent],
                 pre \o synced.ops \o kids.ops \o (IF kids.threw THEN <<>> ELSE post),
                 kids.threw)

\* for (let i = 0; i < Math.max(newLength, oldLength); i++) updateElement(...)
updateChildren(element, newChildren, oldChildren, i, path) ==
    IF i >= Max(Len(newChildren), Len(oldChildren))
    THEN [parent |-> element, ops |-> <<>>, threw |-> FALSE]
    ELSE LET step == updateElement(element,
                        IF i < Len(newChildren) THEN newChildren[i + 1] ELSE Null,
                        IF i < Len(oldChildren) THEN oldChildren[i + 1] ELSE Null,
                        i, path)
         IN IF step.threw THEN step
            ELSE LET rest == updateChildren(step.parent, newChildren, oldChildren,
                                            i + 1, path)
                 IN [parent |-> rest.parent, ops |-> step.ops \o rest.ops,
                     threw |-> rest.threw]

\* ------------------------------------------------------- components
\* The component names the application uses and the paths it registers
\* them under.  A component is the function a script exported: it is
\* known by its name and by the path of the script it came from.
Names == {"Card", "Badge"}
NameOrder == <<"Card", "Badge">>
Paths == {"card.js", "card2.js"}
Component(name, path) == [name |-> name, path |-> path]

\* Map.set, Map.delete, Map.has/get
MapSet(map, key, value) ==
    [n \in DOMAIN map \cup {key} |-> IF n = key THEN value ELSE map[n]]
MapDelete(map, key) == [n \in DOMAIN map \ {key} |-> map[n]]

\* h(tag, ...) for a registered name that is not resolved yet: the
\* placeholder (its serialized props, children and event names are empty
\* here and left out).
Placeholder(name) ==
    Element("div",
            ("className" :> Str("component-loading"))
               @@ ("data-component-name" :> Str(name)),
            <<Text("Loading")>>)

\* What the components return when h calls them: a Badge is a span with
\* a text, a Card is a span around h("Badge").  h("Badge") is the Badge's
\* output when Badge is registered and resolved, the placeholder when it
\* is registered and not resolved, and a plain element otherwise.
hNamed(name, output, cache, registry) ==
    IF name \in registry
    THEN (IF name \in cache THEN output ELSE Placeholder(name))
    ELSE Element(name, EmptyObj, <<>>)
ComponentOutput(name, cache, registry) ==
    LET badge == Element("span", EmptyObj, <<Text("Badge")>>)
    IN IF name = "Badge" THEN badge
       ELSE Element("span", EmptyObj, <<hNamed("Badge", badge, cache, registry)>>)

RECURSIVE findComponentNames(_, _, _)
findComponentNames(node, cache, registry) ==
    IF node.type # "element" THEN {}
    ELSE LET named == Prop(node.props, "data-component-name")
         IN (IF Truthy(named) /\ named.s \notin cache THEN {named.s} ELSE {})
            \cup (IF node.tag \in registry \ cache THEN {node.tag} ELSE {})
            \cup UNION {findComponentNames(node.children[i], cache, registry) :
                           i \in 1..Len(node.children)}

RECURSIVE recreateVNodeWithComponents(_, _, _)
recreateVNodeWithComponents(vnode, cache, registry) ==
    IF vnode.type # "element" THEN vnode
    ELSE LET named == Prop(vnode.props, "data-component-name")
         IN IF Truthy(named) /\ named.s \in cache
            THEN ComponentOutput(named.s, cache, registry)
            ELSE Element(vnode.tag, vnode.props,
                         [i \in 1..Len(vnode.children) |->
                             recreateVNodeWithComponents(vnode.children[i], cache,
                                                         registry)])

\* ------------------------------------------------------- the component loader
\* What loadComponent returns: a promise already fulfilled with the cached
\* component, a promise already rejected, or the promise of a fetch.
Fulfilled(component) == [kind |-> "fulfilled", value |-> component]
Rejected(reason) == [kind |-> "rejected", reason |-> reason]
PromiseOf(id) == [kind |-> "promise", id |-> id]

\* JavaScript runs a task to completion: a call or a callback starts only
\* when nothing is running.
CanStartAnytime == TRUE
CanStart == rpc = "idle"

\* The three tests of loadComponent, and componentRegistry.get(name).
NeverCached(name) == FALSE
IsCached(name) == name \in DOMAIN componentCache
AlwaysRegistered(name) == TRUE
IsRegistered(name) == name \in DOMAIN componentRegistry
RegistryGet(name) ==
    IF name \in DOMAIN componentRegistry THEN componentRegistry[name] ELSE "undefined"

\* The part of the loader loadComponent writes.
LoaderNow ==
    [loading |-> loadingComponents, scripts |-> scripts, promises |-> promises]

\* loadComponent(name) run on the loader st: the loader it leaves and the
\* promise it returns.  A fetch is a script element appended to the head;
\* the promise is stored in loadingComponents.
Load(name, st) ==
    IF IsCached(name)
    THEN [st |-> st, ret |-> Fulfilled(componentCache[name])]
    ELSE IF name \in DOMAIN st.loading
    THEN [st |-> st, ret |-> PromiseOf(st.loading[name])]
    ELSE IF ~IsRegistered(name)
    THEN [st |-> st, ret |-> Rejected("not registered")]
    ELSE LET id == Len(st.promises) + 1
         IN [st |-> [loading |-> MapSet(st.loading, name, id),
                     scripts |-> st.scripts \cup
                                   {[id |-> id, name |-> name, path |-> RegistryGet(name),
                                     stale |-> FALSE]},
                     promises |-> Append(st.promises,
                                         [state |-> "pending", name |-> name])],
             ret |-> PromiseOf(id)]

\* componentNames.map(name => loadComponent(name))
RECURSIVE LoadAll(_, _)
LoadAll(names, st) ==
    IF names = <<>> THEN [st |-> st, rets |-> <<>>]
    ELSE LET first == Load(Head(names), st)
             rest == LoadAll(Tail(names), first.st)
         IN [st |-> rest.st, rets |-> <<first.ret>> \o rest.rets]

\* A suspended render call: the promises its Promise.all waits for.  The
\* call goes on when one of them is rejected or all of them are fulfilled.
Failed(call) ==
    call.failed \/ \E id \in call.waiting : promises[id].state = "rejected"
Ready(call) ==
    Failed(call) \/ \A id \in call.waiting : promises[id].state = "fulfilled"
\* The first i suspended calls seen as overtaken: a call made after them
\* has written to the container (a history field of the suspended calls,
\* the program does not keep it).
Overtake(calls_, i) ==
    [j \in 1..Len(calls_) |-> IF j <= i THEN [calls_[j] EXCEPT !.overtaken = TRUE]
                              ELSE calls_[j]]
\* The reactions to a settled promise run before the next task starts.
Drained == \A i \in 1..Len(pending) : Ready(pending[i]) => pending[i].failed

\* The fetches in flight when the names are evicted: each script element
\* is marked (a history field, the program does not keep it).
Evicted(names) ==
    {[s EXCEPT !.stale = (s.stale \/ s.name \in names)] : s \in scripts}

\* loadComponent(name) called by the application.
loadComponent(name) ==
    /\ CanStart
    /\ Drained
    /\ LET done == Load(name, LoaderNow)
       IN /\ Len(done.st.promises) <= MaxFetches
          /\ loadingComponents' = done.st.loading
          /\ scripts' = done.st.scripts
          /\ promises' = done.st.promises
          /\ lastLoad' = [name |-> name, ret |-> done.ret,
                          cached |-> IF name \in DOMAIN componentCache
                                     THEN componentCache[name] ELSE None,
                          loading |-> IF name \in DOMAIN loadingComponents
                                      THEN loadingComponents[name] ELSE 0,
                          path |-> IF name \in DOMAIN componentRegistry
                                   THEN componentRegistry[name] ELSE "",
                          started |-> done.st.scripts \ scripts,
                          kept |-> done.st.loading = loadingComponents]
    /\ UNCHANGED <<componentCache, componentRegistry, exports, rewritten,
                   surfaceVars, injectVars, storeVars>>

\* registerComponent(name, path)
registerComponent(name, path) ==
    /\ CanStart
    /\ Drained
    /\ componentRegistry' = MapSet(componentRegistry, name, path)
    /\ UNCHANGED <<componentCache, loadingComponents, scripts, exports, promises,
                   lastLoad, rewritten, surfaceVars, injectVars, storeVars>>

\* unloadComponent(name)
unloadComponent(name) ==
    /\ CanStart
    /\ Drained
    /\ componentCache' = MapDelete(componentCache, name)
    /\ scripts' = Evicted({name})
    /\ UNCHANGED <<componentRegistry, loadingComponents, exports, promises,
                   lastLoad, rewritten, surfaceVars, injectVars, storeVars>>

\* unloadAllComponents()
unloadAllComponents ==
    /\ CanStart
    /\ Drained
    /\ componentCache' = EmptyMap
    /\ scripts' = Evicted(Names)
    /\ UNCHANGED <<componentRegistry, loadingComponents, exports, promises,
                   lastLoad, rewritten, surfaceVars, injectVars, storeVars>>

\* cleanupComponentLoader(): the three maps are emptied; the script
\* elements already in the head stay there and their handlers still run.
cleanupComponentLoader ==
    /\ CanStart
    /\ Drained
    /\ componentCache' = EmptyMap
    /\ componentRegistry' = EmptyMap
    /\ loadingComponents' = EmptyMap
    /\ scripts' = Evicted(Names)
    /\ UNCHANGED <<exports, promises, lastLoad, rewritten,
                   surfaceVars, injectVars, storeVars>>

\* script.onload: the script has run (it exported its component with
\* registerDomKitComponent, or it did not); the handler looks the name up
\* in window.__domkitComponents.
scriptLoads(s, exporting) ==
    /\ CanStart
    /\ Drained
    /\ s \in scripts
    /\ scripts' = scripts \ {s}
    /\ exports' = IF exporting THEN MapSet(exports, s.name, Component(s.name, s.path))
                  ELSE exports
    /\ loadingComponents' = MapDelete(loadingComponents, s.name)
    /\ IF s.name \in DOMAIN exports'
       THEN /\ componentCache' = MapSet(componentCache, s.name, exports'[s.name])
            /\ promises' = [promises EXCEPT ![s.id].state = "fulfilled"]
            /\ rewritten' = (rewritten \/ s.name \in DOMAIN componentCache)
       ELSE /\ promises' = [promises EXCEPT ![s.id].state = "rejected"]
            /\ UNCHANGED <<componentCache, rewritten>>
    /\ UNCHANGED <<componentRegistry, lastLoad, surfaceVars, injectVars, storeVars>>

\* script.onerror; the mutant leaves the entry of the in-flight map.
scriptFailsKeepsEntry(s) ==
    /\ CanStart
    /\ Drained
    /\ s \in scripts
    /\ scripts' = scripts \ {s}
    /\ promises' = [promises EXCEPT ![s.id].state = "rejected"]
    /\ UNCHANGED <<componentCache, componentRegistry, loadingComponents, exports,
                   lastLoad, rewritten, surfaceVars, injectVars, storeVars>>
scriptFails(s) ==
    /\ CanStart
    /\ Drained
    /\ s \in scripts
    /\ scripts' = scripts \ {s}
    /\ loadingComponents' = MapDelete(loadingComponents, s.name)
    /\ promises' = [promises EXCEPT ![s.id].state = "rejected"]
    /\ UNCHANGED <<componentCache, componentRegistry, exports, lastLoad, rewritten,
                   surfaceVars, injectVars, storeVars>>

\* ------------------------------------------------------- the render driver
\* The container seen as the parent updateElement works on.
ContainerNode(children) == [HostElement("#container") EXCEPT !.children = children]
\* container.innerHTML = `<div class="error">Failed to load components...</div>`
ErrorBox ==
    [HostElement("div") EXCEPT !.attrs = [class |-> "error"],
                               !.children = <<HostText("Failed to load components")>>]

NoCall == [vnode |-> Null, suspended |-> FALSE]
\* The catch block of render: what it leaves in a container with the
\* given children.  The mutant only logs the error.
catchLogsOnly(children) == children
catchLoadError(children) == <<ErrorBox>>

\* A pass mutates the child list of the container itself: what the
\* observer (childList: true, subtree: false) is told about.
TopLevel(log) ==
    \E i \in 1..Len(log) :
        /\ log[i].op \in {"appendChild", "removeChild", "replaceChild"}
        /\ Len(log[i].path) = 1

\* proceedWithRendering, up to the choice of the branch: install the
\* observer, forget the committed tree when the surface is flagged.
BeginPass(vnode, suspended) ==
    /\ observer' = TRUE
    /\ extMod' = FALSE
    /\ vdom' = IF extMod THEN Null ELSE vdom
    /\ passKind' = IF extMod \/ vdom = Null THEN "mount" ELSE "update"
    /\ rpc' = "mutate"
    /\ curCall' = [vnode |-> vnode, suspended |-> suspended]
    /\ ops' = <<>>
    /\ thrown' = FALSE
    /\ before' = [host |-> host, vdom |-> vdom]
    /\ dirty' = FALSE

\* render(vnode, container) for an existing container.  With components
\* to load the call suspends at its await.
render(vnode) ==
    /\ CanStart
    /\ Drained
    /\ LET names == findComponentNames(vnode, DOMAIN componentCache,
                                       DOMAIN componentRegistry)
           loads == LoadAll(SelectSeq(NameOrder, LAMBDA n : n \in names), LoaderNow)
       IN IF names # {}
          THEN /\ Len(pending) < MaxPending
               /\ Len(loads.st.promises) <= MaxFetches
               /\ loadingComponents' = loads.st.loading
               /\ scripts' = loads.st.scripts
               /\ promises' = loads.st.promises
               /\ pending' = Append(pending,
                                [vnode |-> vnode,
                                 waiting |-> {loads.rets[i].id :
                                                 i \in {j \in 1..Len(loads.rets) :
                                                           loads.rets[j].kind = "promise"}},
                                 failed |-> \E i \in 1..Len(loads.rets) :
                                               loads.rets[i].kind = "rejected",
                                 overtaken |-> FALSE])
               /\ UNCHANGED <<host, vdom, extMod, observer, records, rpc, curCall,
                              passKind, ops, thrown, before, dirty>>
          ELSE /\ BeginPass(vnode, FALSE)
               /\ pending' = Overtake(pending, Len(pending))
               /\ UNCHANGED <<loadingComponents, scripts, promises, host, records>>
    /\ UNCHANGED <<componentCache, componentRegistry, exports, lastLoad, rewritten,
                   externals, anyThrown, injectVars, storeVars>>

\* A suspended render call goes on after its await, the calls that are
\* ready in the order they were made: with the components loaded it
\* recreates the tree and renders it, otherwise it writes the error
\* message into the container.
renderResumes ==
    /\ CanStart
    /\ \E i \in 1..Len(pending) :
          /\ Ready(pending[i])
          /\ \A j \in 1..(i - 1) : ~Ready(pending[j])
          /\ pending' = Splice(Overtake(pending, i - 1), i)
          /\ IF Failed(pending[i])
             THEN /\ host' = catchLoadError(host)
                  /\ records' = (records \/ observer)
                  /\ UNCHANGED <<vdom, extMod, observer, rpc, curCall, passKind, ops,
                                 thrown, before, dirty>>
             ELSE /\ BeginPass(recreateVNodeWithComponents(pending[i].vnode,
                                  DOMAIN componentCache, DOMAIN componentRegistry), TRUE)
                  /\ UNCHANGED <<host, records>>
    /\ UNCHANGED <<loaderVars, externals, anyThrown, injectVars, storeVars>>

\* No committed tree: clear the container and append the new tree.
renderFromScratch ==
    /\ rpc = "mutate"
    /\ passKind = "mount"
    /\ LET made == createDomElement(curCall.vnode, <<0>>)
       IN /\ host' = <<made.node>>
          /\ ops' = [i \in 1..Len(host) |-> HostOp("removeChild", <<0>>, "")]
                    \o Append(made.ops, HostOp("appendChild", <<0>>, ""))
    /\ records' = TRUE
    /\ rpc' = "commit"
    /\ UNCHANGED <<loaderVars, vdom, extMod, observer, pending, curCall, passKind,
                   thrown, before, externals, dirty, anyThrown, injectVars, storeVars>>

\* A committed tree: updateElement(container, vnode, container._vdom, 0).
\* An exception ends the pass before the tree is stored; a call that had
\* suspended catches it and writes the error message.
updateExisting ==
    /\ rpc = "mutate"
    /\ passKind = "update"
    /\ LET done == updateElement(ContainerNode(host), curCall.vnode, vdom, 0, <<>>)
       IN /\ ops' = done.ops
          /\ thrown' = done.threw
          /\ host' = IF done.threw /\ curCall.suspended
                     THEN catchLoadError(done.parent.children)
                     ELSE done.parent.children
          /\ records' = (records \/ TopLevel(done.ops)
                                 \/ (done.threw /\ curCall.suspended))
          /\ rpc' = IF done.threw THEN "idle" ELSE "commit"
          /\ anyThrown' = (anyThrown \/ done.threw)
    /\ UNCHANGED <<loaderVars, vdom, extMod, observer, pending, curCall, passKind,
                   before, externals, dirty, injectVars, storeVars>>

\* container._vdom = vnode
commitTree ==
    /\ rpc = "commit"
    /\ vdom' = curCall.vnode
    /\ rpc' = "idle"
    /\ UNCHANGED <<loaderVars, host, extMod, observer, records, pending, curCall,
                   passKind, ops, thrown, before, externals, dirty, anyThrown,
                   injectVars, storeVars>>

\* The observer's callback runs, in a microtask after the task that
\* mutated the container's child list: container._externallyModified = true.
observerCallback ==
    /\ CanStart
    /\ records
    /\ records' = FALSE
    /\ extMod' = TRUE
    /\ UNCHANGED <<loaderVars, host, vdom, observer, pending, rpc, curCall, passKind,
                   ops, thrown, before, externals, dirty, anyThrown, injectVars,
                   storeVars>>

\* Other code mutates the mounted surface: it appends a node to the
\* container, appends a node inside the root element, or sets an attribute
\* of the root element.
ExternalMutations == {"appendToContainer", "appendInside", "setAttribute"}
externalMutation(m) ==
    /\ CanStart
    /\ Drained
    /\ externals < MaxExternal
    /\ host # <<>>
    /\ m # "appendToContainer" => host[1].type = "element"
    /\ host' = CASE m = "appendToContainer" -> Append(host, HostText("ext"))
                 [] m = "appendInside" ->
                       [host EXCEPT ![1].children = Append(@, HostText("ext"))]
                 [] OTHER ->
                       [host EXCEPT ![1].attrs =
                           [a \in DOMAIN @ \cup {"data-ext"} |->
                               IF a = "data-ext" THEN "1" ELSE @[a]]]
    /\ records' = (records \/ (observer /\ m = "appendToContainer"))
    /\ externals' = externals + 1
    /\ dirty' = TRUE
    /\ UNCHANGED <<loaderVars, vdom, extMod, observer, pending, rpc, curCall, passKind,
                   ops, thrown, before, anyThrown, injectVars, storeVars>>

\* ------------------------------------------------------- inject
\* The target argument of a call: an element, null, or a selector that
\* document.querySelector finds no element for (it returns null).
Targets == {"element", "null", "nomatch"}
Positions == {"append", "prepend", "replace"}

\* target.children: the element children, and where the index-th of them
\* is in target.childNodes (0 when there is none).
ElementChildren(nodes) == SelectSeq(nodes, LAMBDA n : n.type = "element")
ChildNodeIndex(nodes, index) ==
    IF index >= Len(ElementChildren(nodes)) THEN 0
    ELSE CHOOSE i \in 1..Len(nodes) :
            /\ nodes[i].type = "element"
            /\ Len(ElementChildren(SubSeq(nodes, 1, i))) = index + 1

\* The body of inject for a target that is an element: the child nodes
\* and the tracking list it leaves.
Inject(vnode, position, nodes, tracked) ==
    LET element == createDomElement(vnode, <<0>>).node
        list == tracked.list
    IN CASE position = "append" ->
               [nodes |-> Append(nodes, element), tracked |-> Tracked(Append(list, vnode))]
         [] position = "prepend" ->
               [nodes |-> <<element>> \o nodes, tracked |-> Tracked(<<vnode>> \o list)]
         [] OTHER ->
               [nodes |-> <<element>>, tracked |-> Tracked(<<vnode>>)]

\* inject(vnode, target, position); append and prepend are inject with
\* that position.  A target that is null is dereferenced (target._injected)
\* after the element was created: a TypeError.
inject(vnode, where, position) ==
    /\ CanStart
    /\ IF where = "element"
       THEN LET done == Inject(vnode, position, target, injected)
            IN /\ Len(done.nodes) <= MaxInjected
               /\ target' = done.nodes
               /\ injected' = done.tracked
               /\ lastCall' = [op |-> "inject", where |-> where, threw |-> FALSE,
                               mutated |-> TRUE]
       ELSE /\ lastCall' = [op |-> "inject", where |-> where, threw |-> TRUE,
                            mutated |-> FALSE]
            /\ UNCHANGED <<target, injected>>
    /\ UNCHANGED <<compared, loaderVars, surfaceVars, storeVars>>

\* updateInjected(vnode, target, index)
updateInjected(vnode, where, index) ==
    /\ CanStart
    /\ IF where # "element"
       THEN /\ lastCall' = [op |-> "updateInjected", where |-> where, threw |-> TRUE,
                            mutated |-> FALSE]
            /\ UNCHANGED <<target, injected, compared>>
       ELSE IF \/ ~injected.defined
               \/ index >= Len(injected.list)
               \/ Absent(injected.list[index + 1])
       THEN LET done == Inject(vnode, "append", target, injected)
            IN /\ Len(done.nodes) <= MaxInjected
               /\ target' = done.nodes
               /\ injected' = done.tracked
               /\ lastCall' = [op |-> "updateInjected", where |-> where,
                               threw |-> FALSE, mutated |-> TRUE]
               /\ UNCHANGED compared
       ELSE LET oldNode == injected.list[index + 1]
                at == ChildNodeIndex(target, index)
            IN IF isNodeChangedThrows(vnode, oldNode)
               THEN /\ compared' = [node1 |-> vnode, node2 |-> oldNode,
                                    index |-> index, result |-> "throws"]
                    /\ lastCall' = [op |-> "updateInjected", where |-> where,
                                    threw |-> TRUE, mutated |-> FALSE]
                    /\ UNCHANGED <<target, injected>>
               ELSE /\ compared' = [node1 |-> vnode, node2 |-> oldNode,
                                    index |-> index,
                                    result |-> IF isNodeChanged(vnode, oldNode)
                                               THEN "true" ELSE "false"]
                    /\ IF ~isNodeChanged(vnode, oldNode)
                       THEN /\ lastCall' = [op |-> "updateInjected", where |-> where,
                                            threw |-> FALSE, mutated |-> FALSE]
                            /\ UNCHANGED <<target, injected>>
                       ELSE IF at = 0
                       THEN LET done == Inject(vnode, "append", target, injected)
                            IN /\ Len(done.nodes) <= MaxInjected
                               /\ target' = done.nodes
                               /\ injected' = done.tracked
                               /\ lastCall' = [op |-> "updateInjected",
                                               where |-> where, threw |-> FALSE,
                                               mutated |-> TRUE]
                       ELSE /\ target' = [target EXCEPT
                                             ![at] = createDomElement(vnode, <<0>>).node]
                            /\ injected' = [injected EXCEPT !.list[index + 1] = vnode]
                            /\ lastCall' = [op |-> "updateInjected", where |-> where,
                                            threw |-> FALSE, mutated |-> TRUE]
    /\ UNCHANGED <<loaderVars, surfaceVars, storeVars>>

\* render(vnode, container) and mount(component, container) when the
\* container is null or a selector that matches nothing: the call logs
\* an error and returns.
renderNowhere(op, where) ==
    /\ CanStart
    /\ where # "element"
    /\ lastCall' = [op |-> op, where |-> where, threw |-> FALSE, mutated |-> FALSE]
    /\ UNCHANGED <<target, injected, compared, loaderVars, surfaceVars, storeVars>>

\* ------------------------------------------------------- the trees rendered
Div(props, children) == Element("div", props, children)
Span(props) == Element("span", props, <<>>)
\* The text children a, b, a, b, ...
Letter(i) == IF i % 2 = 1 THEN Text("a") ELSE Text("b")
Letters(n) == [i \in 1..n |-> Letter(i)]

IdX == [id |-> Str("x")]
Key1 == [key |-> Str("1")]
Key2 == [key |-> Str("2")]
ClassC == [className |-> Str("c")]
OnClickF == [onClick |-> Fn("f")]
OnClickG == [onClick |-> Fn("g")]
OnInputG == [onInput |-> Fn("g")]
RedSmall == [style |-> StyleObj([color |-> Str("red"), fontSize |-> Str("10px")])]
Red == [style |-> StyleObj([color |-> Str("red")])]
IdXOnClickF == [id |-> Str("x"), onClick |-> Fn("f")]

RootProps ==
    {IdX, Key1, Key2, ClassC, OnClickF, OnClickG, OnInputG, RedSmall, Red, IdXOnClickF}
ChildProps == {EmptyObj, IdX, Key1, Key2}

Trees ==
    {Div(EmptyObj, Letters(n)) : n \in 0..MaxChildren}
       \cup {Div(EmptyObj, <<Text("b")>>)}
       \cup {Div(p, <<Text("a")>>) : p \in RootProps}
       \cup {Div(EmptyObj, <<Span(p)>>) : p \in ChildProps}
       \cup {Div(EmptyObj, <<Span(EmptyObj), Text("a"), Text("b")>>)}

SmallTrees ==
    {Div(EmptyObj, <<Text("a")>>), Div(EmptyObj, <<Text("b")>>), Div(IdX, <<Text("a")>>)}

\* Trees the application built with h("Card") before Card was resolved,
\* and trees without components.
AsyncTrees ==
    {Div(EmptyObj, <<Placeholder("Card")>>), Div(EmptyObj, <<Text("a")>>),
     Div(EmptyObj, Letters(3))}

\* Trees whose root props hold falsy values: an empty title, a title that
\* is the number 0, disabled: false, and a style with opacity 0.
TitleEmpty == [title |-> Str("")]
TitleZero == [title |-> Num(0)]
TitleX == [title |-> Str("x")]
DisabledFalse == [disabled |-> Bool(FALSE)]
Faded == [style |-> StyleObj([opacity |-> Num(0)])]
FadedRed == [style |-> StyleObj([color |-> Str("red"), opacity |-> Num(0)])]
FalsyProps == {TitleEmpty, TitleZero, TitleX, DisabledFalse, Faded, FadedRed, Red, IdX}
FalsyTrees == {Div(p, <<Text("a")>>) : p \in FalsyProps}

\* Trees whose text children are falsy: the empty string and the number 0.
FalsyTexts == {<<Text("")>>, <<NumberText(0)>>, <<Text("a")>>, <<NumberText(1)>>,
               <<Text("a"), NumberText(0)>>, <<Text("a"), Text("b")>>}
TextTrees == {Div(EmptyObj, texts) : texts \in FalsyTexts}

\* Trees whose root has a ref callback, next to other props, and children.
RefX == [id |-> Str("x"), ref |-> Fn("r")]
RefY == [id |-> Str("y"), ref |-> Fn("r")]
RefClick == [ref |-> Fn("r"), onClick |-> Fn("f")]
RefTrees ==
    {Div(RefX, <<Text("a")>>), Div(RefY, <<Text("a")>>), Div(RefY, <<Text("b")>>),
     Div(RefX, <<Span(IdX)>>), Div(RefClick, <<Text("a")>>), Div(RefClick, <<Text("b")>>)}

\* Trees with a node that carries a custom render hook, as
\* createInputField returns them: as the root and as a child.
Input(props) == WithHook(Element("input", props, <<>>))
HookTrees ==
    {Input(Key1), Input(Key2),
     Div(EmptyObj, <<Input(Key1)>>), Div(EmptyObj, <<Input(Key2)>>),
     Div(Key1, <<Input(Key1)>>), Div(EmptyObj, <<Text("a")>>),
     Div(EmptyObj, <<Text("a"), Input(Key1)>>)}

\* ------------------------------------------------------- specifications
\* The store is not used by the renderer: it stays as created.
StoreIdle ==
    /\ heap = [o \in ObjIds |-> EmptyObj]
    /\ state = Addr[1]
    /\ updateQueue = <<>>
    /\ listeners = <<>>
    /\ rafQueue = 0
    /\ frameLeft = 0
    /\ pc = "idle"
    /\ mode = "flush"
    /\ k = 1
    /\ len = 0
    /\ cur = 0
    /\ arg = NoRef
    /\ opsLeft = 0
    /\ snap = NoRef
    /\ queueIds = <<>>
    /\ calls = 0
    /\ applied = [c \in CallIds |-> 0]
    /\ notified = [l \in Listeners |-> 0]
    /\ subCall = FALSE
    /\ tickSize = 0
    /\ passStart = <<>>
    /\ invoked = <<>>
    /\ gone = {}
    /\ added = {}

InitRender == StoreIdle /\ RenderIdle

\* configureComponentLoader({components: {Card: "card.js"}}) was called.
LoaderConfigured ==
    /\ componentCache = EmptyMap
    /\ componentRegistry = [n \in {"Card"} |-> "card.js"]
    /\ loadingComponents = EmptyMap
    /\ scripts = {}
    /\ exports = EmptyMap
    /\ promises = <<>>
    /\ lastLoad = None
    /\ rewritten = FALSE
InitAsync == StoreIdle /\ LoaderConfigured /\ SurfaceIdle /\ InjectIdle

\* The steps of a render pass that has begun.
Pass ==
    \/ renderFromScratch
    \/ updateExisting
    \/ commitTree

\* Render calls on one container with trees that use no component, and
\* the observer's callback.
NextRender ==
    \/ \E v \in Trees : render(v)
    \/ Pass
    \/ observerCallback

SpecRender == InitRender /\ [][NextRender]_vars

\* Render calls and other code that mutates the mounted surface.
NextExternal ==
    \/ \E v \in SmallTrees : render(v)
    \/ Pass
    \/ observerCallback
    \/ \E m \in ExternalMutations : externalMutation(m)

SpecExternal == InitRender /\ [][NextExternal]_vars

\* Render calls with trees that use a component to be loaded.
NextAsync ==
    \/ \E v \in AsyncTrees : render(v)
    \/ \E s \in scripts, exporting \in BOOLEAN : scriptLoads(s, exporting)
    \/ \E s \in scripts : scriptFails(s)
    \/ renderResumes
    \/ Pass
    \/ observerCallback

SpecAsync == InitAsync /\ [][NextAsync]_vars

\* Render calls with trees built while Card and Badge were registered
\* and not resolved, and loadComponent calls made by the application.
ComponentTrees ==
    {Div(EmptyObj, <<Placeholder("Card")>>), Placeholder("Badge"),
     Div(EmptyObj, <<Text("a")>>)}

ComponentsConfigured ==
    /\ componentCache = EmptyMap
    /\ componentRegistry = [n \in Names |-> IF n = "Card" THEN "card.js" ELSE "card2.js"]
    /\ loadingComponents = EmptyMap
    /\ scripts = {}
    /\ exports = EmptyMap
    /\ promises = <<>>
    /\ lastLoad = None
    /\ rewritten = FALSE
InitComponents == StoreIdle /\ ComponentsConfigured /\ SurfaceIdle /\ InjectIdle

NextComponents ==
    \/ \E v \in ComponentTrees : render(v)
    \/ \E name \in Names : loadComponent(name)
    \/ \E s \in scripts, exporting \in BOOLEAN : scriptLoads(s, exporting)
    \/ \E s \in scripts : scriptFails(s)
    \/ renderResumes
    \/ Pass
    \/ observerCallback

SpecComponents == InitComponents /\ [][NextComponents]_vars

\* Calls of inject, append, prepend and updateInjected on one target, with
\* a tree, a text or null, and render and mount calls without a container.
InjectTrees ==
    {Span(EmptyObj), Div(EmptyObj, <<Text("a")>>), Div(EmptyObj, <<Text("b")>>),
     Text("a")}

NextInject ==
    \/ \E v \in InjectTrees, w \in Targets, p \in Positions : inject(v, w, p)
    \/ \E v \in InjectTrees \cup {Null}, w \in Targets, i \in 0..(MaxInjected - 1) :
          updateInjected(v, w, i)
    \/ \E op \in {"render", "mount"}, w \in Targets : renderNowhere(op, w)

SpecInject == InitRender /\ [][NextInject]_vars

\* The component loader alone: the application registers, loads and
\* unloads components while the scripts it fetches load or fail.
NextLoader ==
    \/ \E name \in Names : loadComponent(name)
    \/ \E name \in Names, path \in Paths : registerComponent(name, path)
    \/ \E name \in Names : unloadComponent(name)
    \/ unloadAllComponents
    \/ cleanupComponentLoader
    \/ \E s \in scripts, exporting \in BOOLEAN : scriptLoads(s, exporting)
    \/ \E s \in scripts : scriptFails(s)

SpecLoader == InitRender /\ [][NextLoader]_vars

\* Render calls with trees whose props hold falsy values.
NextProps ==
    \/ \E v \in FalsyTrees : render(v)
    \/ Pass
    \/ observerCallback

SpecProps == InitRender /\ [][NextProps]_vars

\* Render calls with trees whose text children are falsy values, as long
\* as the root host node has fewer than MaxChildren children.
HostRoom == IF host = <<>> THEN TRUE ELSE Len(ChildNodes(host[1])) < MaxChildren
NextTexts ==
    \/ \E v \in TextTrees : HostRoom /\ render(v)
    \/ Pass
    \/ observerCallback

SpecTexts == InitRender /\ [][NextTexts]_vars

\* Render calls with trees whose root has a ref callback.
NextRefs ==
    \/ \E v \in RefTrees : render(v)
    \/ Pass
    \/ observerCallback

SpecRefs == InitRender /\ [][NextRefs]_vars

\* Render calls with trees that hold nodes with a custom render hook.
NextHooks ==
    \/ \E v \in HookTrees : render(v)
    \/ Pass
    \/ observerCallback

SpecHooks == InitRender /\ [][NextHooks]_vars

\* ------------------------------------------------------- render properties
\* The terms the properties of the renderer use.
Materialize(vnode) == createDomElement(vnode, <<0>>).node
NewTree == curCall.vnode
OldTree == before.vdom
\* The pass began a step ago.
PassBegins == rpc = "idle" /\ rpc' = "mutate"
\* The running or last pass took the update branch and has mutated the host.
AfterUpdate == passKind = "update" /\ rpc # "mutate"
\* When the pass began, the surface was the committed tree materialized.
InSync == before.vdom # Null /\ before.host = <<Materialize(before.vdom)>>
\* The pass reconciled the roots in place.
RootKept == AfterUpdate /\ ~isNodeChanged(NewTree, OldTree)
Min(a, b) == IF a < b THEN a ELSE b
OpsWith(kinds) == {i \in 1..Len(ops) : ops[i].op \in kinds}
Creations == {"createElement", "createTextNode"}
ChildListOps == {"appendChild", "removeChild", "replaceChild"}

\* What a host node shows: tag, attributes, inline style, text, children.
RECURSIVE Visible(_)
Visible(node) ==
    IF node.type # "element" THEN node
    ELSE [type |-> "element", tag |-> node.tag, attrs |-> node.attrs,
          style |-> node.style,
          children |-> [i \in 1..Len(node.children) |-> Visible(node.children[i])]]

\* C11: after render calls that all completed, with no mutation by other
\* code and no component to resolve, the surface under the mount point
\* shows what the committed (most recently rendered) tree shows when it is
\* materialized from scratch.
C11_SurfaceMatchesTree ==
    (rpc = "idle" /\ vdom # Null /\ ~anyThrown /\ externals = 0 /\ pending = <<>>)
       => [i \in 1..Len(host) |-> Visible(host[i])] = <<Visible(Materialize(vdom))>>

\* C12: reconciling a tree against an identical committed tree, handlers
\* included, performs no host operation at all.
C12_IdenticalTreeNoMutation ==
    (AfterUpdate /\ InSync /\ NewTree = OldTree)
       => (ops = <<>> /\ ~thrown /\ host = before.host)

\* C13: when reconcile compares two element nodes at one position (the
\* roots, or two children of roots kept in place) and their key props
\* differ, it replaces the host child at that position by the new node
\* freshly materialized.
KeysDiffer(node1, node2) ==
    /\ node1.type = "element"
    /\ node2.type = "element"
    /\ ~StrictEq(KeyOf(node1), KeyOf(node2))
Replaced(path, found, newNode) ==
    /\ \E i \in 1..Len(ops) : ops[i] = HostOp("replaceChild", path, "")
    /\ found = createDomElement(newNode, path).node
StyleOnly(node) ==
    node.type = "element" /\ DOMAIN node.props = {"style"} /\ node.props["style"].kind = "style"
StyleDiffers(prop) ==
    ~StrictEq(StyleValue(OldTree.props["style"].st, prop),
              StyleValue(NewTree.props["style"].st, prop))
C14_OnlyChangedStyles ==
    (/\ AfterUpdate /\ InSync
     /\ StyleOnly(OldTree) /\ StyleOnly(NewTree)
     /\ OldTree.tag = NewTree.tag /\ OldTree.children = NewTree.children)
       => /\ \A i \in 1..Len(ops) :
                /\ ops[i].op \in {"clearStyle", "setStyle"}
                /\ ops[i].path = <<0>>
                /\ StyleDiffers(ops[i].name)
          /\ \A prop \in Range(StyleOrder) :
                StyleDiffers(prop) => \E i \in 1..Len(ops) : ops[i].name = prop

\* C15: when the roots are kept and the new children are the first n of
\* the m old children, n < m, the pass raises no error, its host
\* operations are exactly m - n removals, none at an index below n, and
\* the host parent is left with n children.
C15_TailRemoved ==
    (/\ RootKept /\ InSync
     /\ Len(NewTree.children) < Len(OldTree.children)
     /\ NewTree.children = SubSeq(OldTree.children, 1, Len(NewTree.children)))
       => /\ ~thrown
          /\ Len(ops) = Len(OldTree.children) - Len(NewTree.children)
          /\ \A i \in 1..Len(ops) :
                /\ ops[i].op = "removeChild"
                /\ Len(ops[i].path) = 2
                /\ ops[i].path[2] >= Len(NewTree.children)
          /\ Len(host[1].children) = Len(NewTree.children)

\* C16: after a re-render that raised no error, a plain attribute (one
\* set through the branch for regular attributes) is on the host node of
\* the root, or of a child of the root, only if the new props of the node
\* at that position contain it: {id:"x"} then {} leaves no id attribute.
PlainAttributes(node) == IF node.type = "element" THEN DOMAIN node.attrs \ {"class"} ELSE {}
OnlyNewAttributes(node, vnode) ==
    vnode.type = "element" => PlainAttributes(node) \subseteq DOMAIN vnode.props
EventProps(vnode) == {n \in DOMAIN vnode.props : StartsWithOn(n)}
ListenersOf(node, vnode) ==
    (node.type = "element" /\ vnode.type = "element") =>
       /\ node.bound = {<<EventName(n), vnode.props[n].f>> : n \in EventProps(vnode)}
       /\ \A b1 \in node.bound, b2 \in node.bound : b1[1] = b2[1] => b1 = b2
       /\ DOMAIN node.events = {EventName(n) : n \in EventProps(vnode)}
       /\ \A n \in EventProps(vnode) : node.events[EventName(n)] = vnode.props[n].f

DivA == Div(EmptyObj, <<Text("a")>>)
DivB == Div(EmptyObj, <<Text("b")>>)
C17_ElementReused ==
    (/\ rpc # "mutate" /\ passKind # "none"
     /\ OldTree = DivA /\ before.host = <<Materialize(DivA)>>
     /\ NewTree = DivB)
       => /\ OpsWith(Creations) = {}
          /\ \A i \in OpsWith(ChildListOps) : ops[i].path # <<0>>
          /\ host = <<Materialize(DivB)>>

\* C18: a pass that begins with a committed tree, when no other code ever
\* mutated the surface, takes the update branch.
C18_UpdatePathTaken ==
    [][(PassBegins /\ vdom # Null /\ externals = 0) => passKind' = "update"]_vars

\* C19: a pass that begins after other code mutated the mounted surface
\* since the previous pass discards the committed tree, takes the mount
\* branch (clear and materialize) and leaves the flag reset.
C19_MutationForcesMount ==
    [][(PassBegins /\ vdom # Null /\ dirty)
          => (vdom' = Null /\ passKind' = "mount" /\ extMod' = FALSE)]_vars

InFlight(name, set) == {s \in set : s.name = name}
FetchFails(id) == promises[id].state = "pending" /\ promises'[id].state = "rejected"

\* C21: a loadComponent call for a name that is in the cache returns a
\* promise fulfilled with the cached component and starts no fetch.
C21_CachedNotFetched ==
    (lastLoad # None /\ lastLoad.cached # None)
       => (lastLoad.ret = Fulfilled(lastLoad.cached) /\ lastLoad.started = {})

C21_Witness ==
    /\ lastLoad # None
    /\ lastLoad.cached = Component("Card", "card.js")
    /\ lastLoad.ret = Fulfilled(Component("Card", "card.js"))
    /\ lastLoad.path = "card2.js"

\* C22: at any time there is at most one fetch in flight per component
\* name, a caller that asks for a name with a fetch in flight is handed
\* the promise of that fetch, and no script writes the cache entry of a
\* name that is already in the cache.
C22_OneFetchPerName ==
    /\ \A name \in Names : Cardinality(InFlight(name, scripts)) <= 1
    /\ \A s \in scripts : Load(s.name, LoaderNow).ret = PromiseOf(s.id)
    /\ ~rewritten

\* C23: a loadComponent call for a name that is not registered, not in
\* the cache and not in flight returns a promise rejected with "not
\* registered", starts no fetch and leaves the cache and the in-flight map
\* as they were.
C23_UnregisteredRejected ==
    [][(/\ lastLoad' # lastLoad
        /\ lastLoad'.name \notin DOMAIN componentRegistry
        /\ lastLoad'.name \notin DOMAIN componentCache
        /\ lastLoad'.name \notin DOMAIN loadingComponents)
          => /\ lastLoad'.ret = Rejected("not registered")
             /\ scripts' = scripts
             /\ componentCache' = componentCache
             /\ loadingComponents' = loadingComponents]_vars

C23_Witness ==
    /\ lastLoad # None
    /\ lastLoad.name = "Badge"
    /\ lastLoad.ret = Rejected("not registered")
    /\ "Card" \in DOMAIN componentRegistry
    /\ scripts = {}

\* C24: when a fetch fails, its name is afterwards neither in the cache
\* nor in flight; and a loadComponent call for a registered name that is
\* neither in the cache nor in flight starts a fetch of the path the name
\* is registered under at that moment.
C24_FailureLeavesNoTrace ==
    [][/\ \A id \in 1..Len(promises) :
             FetchFails(id) =>
                /\ promises[id].name \notin DOMAIN componentCache'
                /\ promises[id].name \notin DOMAIN loadingComponents'
                /\ InFlight(promises[id].name, scripts') = {}
       /\ (/\ lastLoad' # lastLoad
           /\ lastLoad'.name \in DOMAIN componentRegistry
           /\ lastLoad'.name \notin DOMAIN componentCache
           /\ lastLoad'.name \notin DOMAIN loadingComponents)
             => \E s \in scripts' \ scripts :
                   /\ s.name = lastLoad'.name
                   /\ s.path = componentRegistry[s.name]
                   /\ lastLoad'.ret = PromiseOf(s.id)]_vars

\* ------------------------------------------------------- component properties
\* The error message render writes, as the host shows it.
ErrorMessage ==
    [type |-> "element", tag |-> "div", attrs |-> [class |-> "error"],
     style |-> EmptyObj,
     children |-> <<[type |-> "text", value |-> "Failed to load components"]>>]
\* The render call that goes on next is one whose components failed to
\* resolve, and this step is that call going on.
FailedCallResumes ==
    \E i \in 1..Len(pending) :
       /\ \/ pending[i].failed
          \/ \E id \in pending[i].waiting : promises[id].state = "rejected"
       /\ \A j \in 1..(i - 1) :
             /\ ~pending[j].failed
             /\ \E id \in pending[j].waiting : promises[id].state = "pending"
       /\ Len(pending') = Len(pending) - 1

\* C25: when a render call whose component failed to resolve goes on, it
\* raises no error and starts no pass: it replaces the whole content of
\* the container by the error message.
C25_FailureShowsError ==
    [][FailedCallResumes =>
          /\ [i \in 1..Len(host') |-> Visible(host'[i])] = <<ErrorMessage>>
          /\ rpc' = "idle"
          /\ thrown' = thrown /\ anyThrown' = anyThrown]_vars

C25_Witness ==
    /\ [i \in 1..Len(host) |-> Visible(host[i])] = <<ErrorMessage>>
    /\ vdom = Div(EmptyObj, <<Text("a")>>)
    /\ ~anyThrown
    /\ pending = <<>>
    /\ \E id \in 1..Len(promises) : promises[id].state = "rejected"

\* The host nodes of a list of host nodes, at any depth.
RECURSIVE HostNodes(_)
HostNodes(nodes) ==
    UNION {{nodes[i]} \cup HostNodes(ChildNodes(nodes[i])) : i \in 1..Len(nodes)}
\* The surface shows the loading indicator of a component.
ShowsPlaceholder(name) ==
    \E node \in HostNodes(host) :
       /\ node.type = "element"
       /\ "data-component-name" \in DOMAIN node.attrs
       /\ node.attrs["data-component-name"] = name

\* C26: while a render call waits for a component whose fetch has not
\* settled, the surface shows the placeholder of that component.
C26_PlaceholderWhilePending ==
    \A i \in 1..Len(pending) :
       \A id \in pending[i].waiting :
          promises[id].state = "pending" => ShowsPlaceholder(promises[id].name)

\* The names of the components a tree holds a placeholder for.
RECURSIVE PlaceholdersIn(_)
PlaceholdersIn(vnode) ==
    IF vnode.type # "element" THEN {}
    ELSE (IF "data-component-name" \in DOMAIN vnode.props
          THEN {vnode.props["data-component-name"].s} ELSE {})
         \cup UNION {PlaceholdersIn(vnode.children[i]) : i \in 1..Len(vnode.children)}

\* C27: the tree a pass commits holds no placeholder of a component that
\* is in the cache when the tree is committed.
C27_NoResolvedPlaceholder ==
    [][(rpc = "commit" /\ rpc' = "idle")
          => PlaceholdersIn(vdom') \cap DOMAIN componentCache = {}]_vars

\* ------------------------------------------------------- inject properties
\* C28: a call of render, mount, inject, append, prepend or
\* updateInjected whose target is null or a selector that matches nothing
\* raises no error and mutates no host node.
C28_MissingTargetNoThrow ==
    (lastCall # None /\ lastCall.where # "element")
       => (~lastCall.threw /\ ~lastCall.mutated)

\* C29: isNodeChanged raises no error; it returns true when exactly one
\* of its arguments is absent and false when both are.
C29_OracleNeverThrows ==
    compared # None =>
       /\ compared.result # "throws"
       /\ (compared.node1 = Null) # (compared.node2 = Null) => compared.result = "true"
       /\ (compared.node1 = Null /\ compared.node2 = Null) => compared.result = "false"

\* ------------------------------------------------------- prop sync properties
\* The host attribute a prop is written to, and the operations of the
\* pass on the root host node.
HostAttribute(name) == IF name = "className" THEN "class" ELSE name
RootOps(kinds) == {i \in 1..Len(ops) : ops[i].path = <<0>> /\ ops[i].op \in kinds}
StyleOf(vnode) ==
    IF Prop(vnode.props, "style").kind = "style" THEN vnode.props["style"].st ELSE EmptyObj
Unchanged(new, old, name) ==
    name \in DOMAIN new /\ name \in DOMAIN old /\ StrictEq(new[name], old[name])

\* C31: when a pass syncs the props of the root in place, it removes an
\* attribute only if its name is not in the new props and clears a style
\* property only if its name is not in the new style; a prop, or a style
\* property, that is in the old and in the new props with the same value
\* (0, false and "" included) is not written and stays on the host node.
C31_FalsyValuesKept ==
    (RootKept /\ InSync /\ ~thrown) =>
       /\ \A i \in RootOps({"removeAttribute"}) : ops[i].name \notin DOMAIN NewTree.props
       /\ \A i \in RootOps({"clearStyle"}) : ops[i].name \notin DOMAIN StyleOf(NewTree)
       /\ \A name \in DOMAIN NewTree.props :
             (/\ Unchanged(NewTree.props, OldTree.props, name)
              /\ ~StartsWithOn(name) /\ name # "style")
                => /\ \A i \in 1..Len(ops) :
                         ops[i].path = <<0>> => ops[i].name # HostAttribute(name)
                   /\ HostAttribute(name) \in DOMAIN host[1].attrs
                   /\ host[1].attrs[HostAttribute(name)] = StringOf(NewTree.props[name])
       /\ \A prop \in DOMAIN StyleOf(NewTree) :
             Unchanged(StyleOf(NewTree), StyleOf(OldTree), prop)
                => /\ \A i \in 1..Len(ops) : ops[i].path = <<0>> => ops[i].name # prop
                   /\ prop \in DOMAIN host[1].style
                   /\ host[1].style[prop] = StringOf(StyleOf(NewTree)[prop])

\* ------------------------------------------------------- hook properties
\* The node of a tree at a path (the root is at <<0>>), and the
\* operations of the pass of some kinds at a path.
RECURSIVE NodeAt(_, _)
NodeAt(tree, path) ==
    IF Len(path) <= 1 THEN tree
    ELSE LET parent == NodeAt(tree, SubSeq(path, 1, Len(path) - 1))
             index == path[Len(path)]
         IN IF parent.type = "element" /\ index < Len(parent.children)
            THEN parent.children[index + 1] ELSE Null
OpsAt(kinds, path) == {i \in 1..Len(ops) : ops[i].op \in kinds /\ ops[i].path = path}

\* C32: when a pass has created the host node of a node that carries a
\* custom render hook (first paint, full rebuild, replacement of the node
\* or of an ancestor), the hook was invoked for that position before the
\* host node was created, with the previous node in an update pass, and
\* its callback was invoked exactly once, after the host node was put in
\* its place.
C32_HookAroundReplacement ==
    (/\ rpc # "mutate" /\ passKind # "none" /\ ~thrown
     /\ passKind = "update" => InSync)
       => \A i \in OpsWith({"createElement"}) :
             HasHook(NodeAt(NewTree, ops[i].path)) =>
                /\ \E j \in OpsAt({"customRender"}, ops[i].path) :
                      /\ j < i
                      /\ passKind = "update"
                            => ops[j].name = KindOf(NodeAt(OldTree, ops[i].path))
                /\ Cardinality(OpsAt({"postRender"}, ops[i].path)) = 1
                /\ \A j \in OpsAt({"postRender"}, ops[i].path) :
                      \E m \in OpsAt({"appendChild", "replaceChild"}, ops[i].path) :
                         i < m /\ m < j

\* ------------------------------------------------------- ref properties
PropWrites ==
    {"setAttribute", "removeAttribute", "setStyle", "clearStyle", "addEventListener",
     "removeEventListener"}
Below(path, other) == Len(path) < Len(other) /\ SubSeq(other, 1, Len(path)) = path

\* C33: in a pass, every call of a node's ref callback comes after every
\* write of an attribute, a style or a listener on the host node of that
\* node, and before every operation on a node below it.
C33_RefAfterProps ==
    (/\ rpc # "mutate" /\ passKind # "none" /\ ~thrown
     /\ passKind = "update" => InSync)
       => \A i \in OpsWith({"ref"}) :
             /\ \A j \in OpsAt(PropWrites, ops[i].path) : j < i
             /\ \A j \in 1..Len(ops) : Below(ops[i].path, ops[j].path) => i < j

\* ------------------------------------------------------- text properties
AllTexts(children) == \A i \in 1..Len(children) : children[i].type = "text"

\* C34: a text child that is 0 or "" is a present node.  When the root
\* is kept and the old and the new children are equally many text nodes,
\* the pass raises no error, appends and removes no host child, replaces
\* the host text node at each index whose text differs, and leaves the
\* host children of the new tree materialized.
C34_FalsyTextPresent ==
    (/\ RootKept /\ InSync
     /\ AllTexts(NewTree.children) /\ AllTexts(OldTree.children)
     /\ Len(NewTree.children) = Len(OldTree.children))
       => /\ ~thrown
          /\ OpsWith({"appendChild", "removeChild"}) = {}
          /\ \A i \in 1..Len(NewTree.children) :
                NewTree.children[i] # OldTree.children[i]
                   => OpsAt({"replaceChild"}, <<0, i - 1>>) # {}
          /\ host = <<Materialize(NewTree)>>

\* ------------------------------------------------------- updateInjected properties
\* C35: when updateInjected(v, target, i) has compared an element v with
\* the element injected at index i and returned, the tracking list holds
\* v at index i and the child of the target at index i is v
\* materialized, also when v differs from the element injected before
\* only in its children.
C35_UpdateInjectedReflects ==
    [][(/\ compared' # compared
        /\ compared'.node1.type = "element" /\ compared'.node2.type = "element")
          => /\ injected'.defined
             /\ injected'.list[compared'.index + 1] = compared'.node1
             /\ compared'.index < Len(target')
             /\ target'[compared'.index + 1] = Materialize(compared'.node1)]_vars

\* ------------------------------------------------------- render call order
\* The suspended call that goes on next: the first one that is ready.
NextToResume ==
    CHOOSE i \in 1..Len(pending) : Ready(pending[i]) /\ \A j \in 1..(i - 1) : ~Ready(pending[j])
CallResumes == Len(pending') = Len(pending) - 1

\* C36: a render call that suspended does not write to the container
\* (its tree, or its error message) once a call made after it has written
\* to the container: the tree shown and committed in the end is the one of
\* the last call.
C36_LastCallWins == [][CallResumes => ~pending[NextToResume].overtaken]_vars

\* ------------------------------------------------------- eviction properties
\* The script settles in this step.
Settles(s) == s \in scripts /\ \A t \in scripts' : t.id # s.id

\* C37: a fetch that was in flight when its name was evicted
\* (unloadComponent of the name, unloadAllComponents,
\* cleanupComponentLoader) does not put the name into the cache when it
\* settles: the name stays unresolved until a fetch started after the
\* eviction succeeds.
C37_EvictedStaysOut ==
    [][\A s \in scripts :
          (Settles(s) /\ s.stale /\ s.name \notin DOMAIN componentCache)
             => s.name \notin DOMAIN componentCache']_vars

\* C38: in every state no name is both in the cache and in the in-flight
\* map, the in-flight map holds no fetch that has settled, and the step in
\* which a fetch settles, with success or with failure, leaves its name
\* out of the in-flight map.
C38_CacheAndFlightDisjoint ==
    /\ [](/\ DOMAIN componentCache \cap DOMAIN loadingComponents = {}
          /\ \A name \in DOMAIN loadingComponents :
                promises[loadingComponents[name]].state = "pending")
    /\ [][\A s \in scripts : Settles(s) => s.name \notin DOMAIN loadingComponents']_vars

C38_Witness ==
    /\ "Card" \in DOMAIN componentCache
    /\ DOMAIN loadingComponents = {"Badge"}
    /\ promises = <<[state |-> "fulfilled", name |-> "Card"],
                    [state |-> "pending", name |-> "Badge"]>>

\* ------------------------------------------------------- notification properties
\* C39: the object a listener is called with is not the internal state
\* object, and a listener that adds, changes or deletes a top-level key of
\* the object it was called with leaves the value of getState, which is
\* what the next listener is shown, unchanged.
C39_ListenerGetsCopy ==
    [][ /\ (pc = "forEach" /\ pc' = "listener") => arg' # state'
        /\ (pc = "listener" /\ arg' = arg /\ heap'[arg] # heap[arg])
              => GetStateValue' = GetStateValue ]_vars

====
